---- MODULE Spec2Model ----
(***************************************************************************)
(* DevDiary: the commit classifier (journal/summarize.py) and its cache    *)
(* store (journal/cache.py).                                               *)
(*                                                                         *)
(* Python strings are TLA+ strings, handled character by character with    *)
(* Len, SubSeq and \o.  A Python dict is a function whose domain is its    *)
(* key set; a value that may be a dict, None or another JSON value is a    *)
(* record tagged by k.                                                     *)
(***************************************************************************)
EXTENDS Integers, Sequences, FiniteSets, TLC

(***************************************************************************)
(* String primitives (Python str methods used by the source).              *)
(***************************************************************************)
Min(a, b) == IF a < b THEN a ELSE b

CharAt(s, i) == SubSeq(s, i, i)

\* Python: k in s
Contains(k, s) ==
    \E i \in 1..(Len(s) - Len(k) + 1) : SubSeq(s, i, i + Len(k) - 1) = k

\* Python: any(k in s for k in ks)
AnyIn(ks, s) == \E k \in ks : Contains(k, s)

UpperChars == "ABCDEFGHIJKLMNOPQRSTUVWXYZ"
LowerChars == "abcdefghijklmnopqrstuvwxyz"
Digits == "0123456789"
HexChars == "0123456789abcdef"

LowerChar(c) ==
    IF Contains(c, UpperChars)
    THEN CharAt(LowerChars, CHOOSE i \in 1..Len(UpperChars) : CharAt(UpperChars, i) = c)
    ELSE c

RECURSIVE LowerRange(_, _, _)
\* the characters lo..hi of s, lower-cased (halving keeps the evaluation shallow)
LowerRange(s, lo, hi) ==
    IF lo > hi THEN ""
    ELSE IF lo = hi THEN LowerChar(CharAt(s, lo))
    ELSE LowerRange(s, lo, (lo + hi) \div 2) \o LowerRange(s, (lo + hi) \div 2 + 1, hi)

\* Python: s.lower()
Lower(s) == LowerRange(s, 1, Len(s))

\* the largest element of the set S of positions, 0 if it is empty
Last(S) == IF S = {} THEN 0 ELSE CHOOSE i \in S : \A j \in S : i >= j
\* the smallest element of S, otherwise
First(S, otherwise) == IF S = {} THEN otherwise ELSE CHOOSE i \in S : \A j \in S : i <= j

IsSpace(c) == c \in {" ", "\t", "\n", "\r"}

\* \w of the re module, for the characters the model uses
IsWordChar(c) ==
    Contains(c, LowerChars) \/ Contains(c, UpperChars) \/ Contains(c, Digits) \/ c = "_"

\* Python: s.lstrip()
LStrip(s) == SubSeq(s, First({i \in 1..Len(s) : ~IsSpace(CharAt(s, i))}, Len(s) + 1), Len(s))

\* Python: s.rstrip()
RStrip(s) == SubSeq(s, 1, Last({i \in 1..Len(s) : ~IsSpace(CharAt(s, i))}))

\* Python: s.strip()
Strip(s) == RStrip(LStrip(s))

\* Python: s.rstrip(".")
RStripDot(s) == SubSeq(s, 1, Last({i \in 1..Len(s) : CharAt(s, i) # "."}))

\* Python: s[:n]
Prefix(s, n) == SubSeq(s, 1, Min(n, Len(s)))

\* Python: s.strip().splitlines()[0] if s.strip() else ""
FirstLine(s) ==
    LET t == Strip(s)
    IN  SubSeq(t, 1, First({i \in 1..Len(t) : CharAt(t, i) \in {"\n", "\r"}}, Len(t) + 1) - 1)

(***************************************************************************)
(* Commit parsing and heuristics (summarize.py, 206-237).                  *)
(***************************************************************************)
HashMinLen == 6
HashMaxLen == 40
NoHash == "unknown"

\* length of the longest prefix of s made of lower-case hex digits
HexRun(s) ==
    First({i \in 1..Len(s) : ~Contains(CharAt(s, i), HexChars)}, Len(s) + 1) - 1

\* re.match(r"^([0-9a-f]{6,40})\b", first); "" stands for None
_extract_commit_hash(block) ==
    LET first == FirstLine(block)
        n == HexRun(first)
    IN  IF /\ n >= HashMinLen
           /\ n <= HashMaxLen
           /\ (n = Len(first) \/ ~IsWordChar(CharAt(first, n + 1)))
        THEN SubSeq(first, 1, n)
        ELSE ""

\* the whole first line taken as the message
WholeFirstLine(block) == FirstLine(block)

\* first.split(maxsplit=1): parts[1] if there are two parts, else ""
_extract_commit_message(block) ==
    LET first == LStrip(FirstLine(block))
    IN  LStrip(SubSeq(first, First({i \in 1..Len(first) : IsSpace(CharAt(first, i))},
                                   Len(first) + 1), Len(first)))

\* _heuristic_work_type with the feature keywords tested before the bugfix ones
FeatureFirst(msg) ==
    LET msg_l == Lower(msg)
    IN  IF AnyIn({"feat", "feature", "add", "implement"}, msg_l) THEN "feature"
        ELSE IF AnyIn({"fix", "bug", "hotfix", "patch"}, msg_l) THEN "bugfix"
        ELSE IF AnyIn({"refactor", "cleanup", "restructure"}, msg_l) THEN "refactor"
        ELSE IF AnyIn({"doc", "readme", "changelog"}, msg_l) THEN "docs"
        ELSE IF AnyIn({"test", "spec", "unit test", "unittest"}, msg_l) THEN "test"
        ELSE IF AnyIn({"perf", "optimiz"}, msg_l) THEN "perf"
        ELSE IF AnyIn({"build", "packag"}, msg_l) THEN "build"
        ELSE IF AnyIn({"ci", "pipeline", "workflow"}, msg_l) THEN "ci"
        ELSE IF AnyIn({"chore", "deps", "dependency", "bump"}, msg_l) THEN "chore"
        ELSE "other"

\* summarize.py 217-237
_heuristic_work_type(msg) ==
    LET msg_l == Lower(msg)
    IN  IF AnyIn({"fix", "bug", "hotfix", "patch"}, msg_l) THEN "bugfix"
        ELSE IF AnyIn({"feat", "feature", "add", "implement"}, msg_l) THEN "feature"
        ELSE IF AnyIn({"refactor", "cleanup", "restructure"}, msg_l) THEN "refactor"
        ELSE IF AnyIn({"doc", "readme", "changelog"}, msg_l) THEN "docs"
        ELSE IF AnyIn({"test", "spec", "unit test", "unittest"}, msg_l) THEN "test"
        ELSE IF AnyIn({"perf", "optimiz"}, msg_l) THEN "perf"
        ELSE IF AnyIn({"build", "packag"}, msg_l) THEN "build"
        ELSE IF AnyIn({"ci", "pipeline", "workflow"}, msg_l) THEN "ci"
        ELSE IF AnyIn({"chore", "deps", "dependency", "bump"}, msg_l) THEN "chore"
        ELSE "other"

(***************************************************************************)
(* Python values.  A dict is a function from key strings to values; a     *)
(* value whose type the code tests (a parse result, a cache lookup) is a  *)
(* record: k is the Python type, d the dict, truthy the value of bool(v). *)
(***************************************************************************)
EmptyDict == [f \in {} |-> ""]

PyNone == [k |-> "none", d |-> EmptyDict, truthy |-> FALSE]
PyDict(d) == [k |-> "dict", d |-> d, truthy |-> DOMAIN d # {}]
\* a JSON value that is not an object: "list", "str", "int" or "bool"
PyOther(kind, truthy) == [k |-> kind, d |-> EmptyDict, truthy |-> truthy]

\* dict[key] = value
DictSet(d, key, value) ==
    [f \in DOMAIN d \cup {key} |-> IF f = key THEN value ELSE d[f]]

\* A JSON array where an object of the model service holds a string: the mark
\* followed by the text of the array.  No string of the model starts with the mark.
ListMark == "#"
ListValue(text) == ListMark \o text
\* A JSON number in such a place: its mark followed by its digits.
NumMark == "%"
NumberValue(digits) == NumMark \o digits
IsNumber(v) == v # "" /\ SubSeq(v, 1, 1) = NumMark
\* isinstance(v, str)
IsStr(v) == v = "" \/ SubSeq(v, 1, 1) \notin {ListMark, NumMark}

\* an exception: its class and str(e); NoExc when nothing is raised
NoExc == [type |-> "", text |-> ""]

(***************************************************************************)
(* Text of a model response (summarize.py, 161-200).  The text is the      *)
(* sequence of its spans: prose without braces, a code-fence marker, a     *)
(* {...} span that is a JSON object (written with straight or curly        *)
(* quotes, with or without a comma before its closing brace), a {...} span *)
(* that is not JSON, or a JSON value that is not an object.                *)
(***************************************************************************)
Prose == [t |-> "prose", d |-> EmptyDict, curly |-> FALSE, tcomma |-> FALSE, v |-> PyNone]
Fence == [t |-> "fence", d |-> EmptyDict, curly |-> FALSE, tcomma |-> FALSE, v |-> PyNone]
Junk == [t |-> "junk", d |-> EmptyDict, curly |-> FALSE, tcomma |-> FALSE, v |-> PyNone]
Obj(d, curly, tcomma) == [t |-> "obj", d |-> d, curly |-> curly, tcomma |-> tcomma, v |-> PyNone]
Val(v) == [t |-> "val", d |-> EmptyDict, curly |-> FALSE, tcomma |-> FALSE, v |-> v]

\* json.loads(text): ok is FALSE when it raises
text_loads(text) ==
    IF Len(text) # 1 THEN [ok |-> FALSE, v |-> PyNone]
    ELSE LET span == text[1]
         IN  IF span.t = "obj" /\ ~span.curly /\ ~span.tcomma
             THEN [ok |-> TRUE, v |-> PyDict(span.d)]
             ELSE IF span.t = "val" THEN [ok |-> TRUE, v |-> span.v]
             ELSE [ok |-> FALSE, v |-> PyNone]

\* summarize.py 168-172
_normalize_quotes(text) ==
    [i \in 1..Len(text) |-> IF text[i].t = "obj" THEN [text[i] EXCEPT !.curly = FALSE] ELSE text[i]]

\* summarize.py 163-166: a fence at the very start and one at the very end
_strip_code_fences(text) ==
    LET a == IF text # <<>> /\ text[1].t = "fence" THEN Tail(text) ELSE text
    IN  IF a # <<>> /\ a[Len(a)].t = "fence" THEN SubSeq(a, 1, Len(a) - 1) ELSE a

\* summarize.py 174-179: from the first "{" to the last "}"; <<>> stands for None
_extract_json_block(text) ==
    LET t == _strip_code_fences(_normalize_quotes(text))
        braces == {i \in 1..Len(t) : t[i].t \in {"obj", "junk"}}
    IN  IF braces = {} THEN <<>>
        ELSE SubSeq(t, CHOOSE i \in braces : \A j \in braces : i <= j,
                       CHOOSE i \in braces : \A j \in braces : i >= j)

\* re.sub(r",\s*([}\]])", r"\1", block)
StripTrailingCommas(block) ==
    [i \in 1..Len(block) |-> IF block[i].t = "obj" THEN [block[i] EXCEPT !.tcomma = FALSE] ELSE block[i]]

\* summarize.py 189-200: the block found, parsed as it is, then without
\* trailing commas (v is None when json.loads raises)
ParseBlock(block) ==
    IF block = <<>> THEN PyNone
    ELSE IF text_loads(block).ok THEN text_loads(block).v
    ELSE text_loads(StripTrailingCommas(block)).v

\* summarize.py 181-200
_try_parse_json(text) ==
    IF text_loads(text).ok THEN text_loads(text).v
    ELSE ParseBlock(_extract_json_block(text))

(***************************************************************************)
(* JSON text of the cache file (cache.py, 9-19).  json.dumps writes every  *)
(* key and every string value as a quoted, escaped string token;           *)
(* ensure_ascii=False leaves the other characters as they are.  The file   *)
(* text is the set of its "key": value members (member order and           *)
(* indentation do not reach json.loads' result), an object value the set   *)
(* of its members.                                                         *)
(***************************************************************************)
Quote == "\""
Backslash == "\\"

\* EscapeChar that escapes the control characters only
EscapeControlOnly(c) ==
    CASE c = "\n" -> Backslash \o "n"
      [] c = "\r" -> Backslash \o "r"
      [] c = "\t" -> Backslash \o "t"
      [] OTHER -> c

\* the escapes of json.dumps for the characters of the model
EscapeChar(c) ==
    CASE c = Quote -> Backslash \o Quote
      [] c = Backslash -> Backslash \o Backslash
      [] c = "\n" -> Backslash \o "n"
      [] c = "\r" -> Backslash \o "r"
      [] c = "\t" -> Backslash \o "t"
      [] OTHER -> c

RECURSIVE EscapeRange(_, _, _)
EscapeRange(s, lo, hi) ==
    IF lo > hi THEN ""
    ELSE IF lo = hi THEN EscapeChar(CharAt(s, lo))
    ELSE EscapeRange(s, lo, (lo + hi) \div 2) \o EscapeRange(s, (lo + hi) \div 2 + 1, hi)

\* the string token json.dumps writes for the str s
JsonStr(s) == Quote \o EscapeRange(s, 1, Len(s)) \o Quote

UnescapeChar(c) ==
    CASE c = "n" -> "\n"
      [] c = "r" -> "\r"
      [] c = "t" -> "\t"
      [] OTHER -> c

RECURSIVE Escaped(_, _)
\* json.loads reads character i of tok as the second character of an escape:
\* a backslash that is not itself escaped stands right before it
Escaped(tok, i) == i > 1 /\ CharAt(tok, i - 1) = Backslash /\ ~Escaped(tok, i - 1)

\* what character i of a string token adds to the decoded string
DecodeAt(tok, i) ==
    IF Escaped(tok, i) THEN UnescapeChar(CharAt(tok, i))
    ELSE IF CharAt(tok, i) = Backslash THEN ""
    ELSE CharAt(tok, i)

RECURSIVE DecodeRange(_, _, _)
DecodeRange(tok, lo, hi) ==
    IF lo > hi THEN ""
    ELSE IF lo = hi THEN DecodeAt(tok, lo)
    ELSE DecodeRange(tok, lo, (lo + hi) \div 2) \o DecodeRange(tok, (lo + hi) \div 2 + 1, hi)

\* json.loads accepts tok as one string: from its opening quote to the first
\* quote that is not escaped, with known escapes and no raw control character
StrOk(tok) ==
    /\ Len(tok) >= 2
    /\ CharAt(tok, 1) = Quote
    /\ CharAt(tok, Len(tok)) = Quote
    /\ ~Escaped(tok, Len(tok))
    /\ \A i \in 2..(Len(tok) - 1) :
          /\ CharAt(tok, i) = Quote => Escaped(tok, i)
          /\ Escaped(tok, i) => CharAt(tok, i) \in {Quote, Backslash, "n", "r", "t", "/"}
          /\ CharAt(tok, i) \notin {"\n", "\r", "\t"}

\* the str json.loads reads from the string token tok
StrOf(tok) == DecodeRange(tok, 2, Len(tok) - 1)

\* the file does not exist
NoFile == [k |-> "missing", members |-> {}]
\* a file whose text is not JSON
GarbageFile == [k |-> "garbage", members |-> {}]

ObjText(d) == {<<JsonStr(f), JsonStr(d[f])>> : f \in DOMAIN d}

\* json.dumps(cache, ensure_ascii=False, indent=2)
json_dumps(cache) ==
    [k |-> "json", members |-> {<<JsonStr(h), ObjText(cache[h])>> : h \in DOMAIN cache}]

\* the text parses: every token is one string
TextOk(members) ==
    \A m \in members : StrOk(m[1]) /\ \A n \in m[2] : StrOk(n[1]) /\ StrOk(n[2])

\* the dict of a set of "name": token members (a name written twice keeps one value)
ObjOf(members) ==
    [f \in {StrOf(n[1]) : n \in members} |->
        StrOf((CHOOSE n \in members : StrOf(n[1]) = f)[2])]

\* json.loads(text) of a text that parses
json_loads(members) ==
    [h \in {StrOf(m[1]) : m \in members} |->
        ObjOf((CHOOSE m \in members : StrOf(m[1]) = h)[2])]

\* cache.py 9-16: {} for a missing file and for a file json.loads rejects
load_cache(file) ==
    IF file.k = "json" /\ TextOk(file.members) THEN json_loads(file.members) ELSE EmptyDict

\* a file that exists and whose read_text raises (no permission, not UTF-8)
UnreadableFile == [k |-> "unreadable", members |-> {}]
\* a file whose text is the JSON array []
ListFile == [k |-> "list", members |-> {}]
\* a file whose text is the JSON value null
NullFile == [k |-> "null", members |-> {}]

\* cache.py 9-16 as a Python value: json.loads returns whatever JSON value the text
\* holds, and line 12 returns it as it is
load_cache_value(file) ==
    CASE file.k = "list" -> PyOther("list", FALSE)
      [] file.k = "null" -> PyNone
      [] OTHER -> PyDict(load_cache(file))

\* cache.py 18-19: the new content of the file written
save_cache(cache) == json_dumps(cache)

\* cache.py 21-22: cache.get(hash_)
get_cached(hash_, cache) ==
    IF hash_ \in DOMAIN cache THEN PyDict(cache[hash_]) ELSE PyNone

\* cache.py 24-25
put_cached(hash_, value, cache) == DictSet(cache, hash_, value)

FailureMarker == "summary unavailable"

\* cache.py 31: the entry is an error fallback of an earlier run
IsBadEntry(v) == "bullet" \in DOMAIN v /\ Contains(FailureMarker, v["bullet"])

\* a purge that drops one failure entry per call
PurgeFirstBad(cache) ==
    LET bad == {g \in DOMAIN cache : IsBadEntry(cache[g])}
        first == CHOOSE g \in bad : \A o \in bad : Len(g) <= Len(o)
    IN  [h \in DOMAIN cache \ (IF bad = {} THEN {} ELSE {first}) |-> cache[h]]

\* cache.py 31: "summary unavailable" in v["bullet"] raises TypeError when the
\* bullet of an entry is a number
PurgeRaises(cache) ==
    \E h \in DOMAIN cache : "bullet" \in DOMAIN cache[h] /\ IsNumber(cache[h]["bullet"])

PurgeError == [type |-> "TypeError", text |-> "argument of type 'int' is not iterable"]

\* a purge that keeps every entry
KeepsAll(cache) == cache

\* cache.py 27-35, when it returns
purge_bad_entries(cache) ==
    [h \in {g \in DOMAIN cache : ~IsBadEntry(cache[g])} |-> cache[h]]

(***************************************************************************)
(* Inputs: the commit blocks, the cache_path arguments and what the model  *)
(* service may do on a call.                                               *)
(***************************************************************************)
\* A TLA+ string cannot hold the character ` of the bullet format: ^ stands for it.
Backtick == "^"

\* cache.py 7
DEFAULT_CACHE_PATH == "~/.devdiary_cache.json"
OtherCachePath == "/tmp/devdiary_test_cache.json"
Paths == {DEFAULT_CACHE_PATH, OtherCachePath}
\* cache_path=None
NonePath == "None"
CachePathArgs == {NonePath, OtherCachePath}

\* a header whose message holds "fix" and "add" and is longer than 60 characters
Block1 ==
    "a1b2c3d Fix crash in the commit parser and add retry to cache load... Also bump deps.\nsrc/journal/cache.py"
\* a header that starts with no hash, its message made of periods only
Block2 == "wip ...\nREADME.md"
Blocks == {Block1, Block2}

\* the object the prompt asks for
GoodObject(h) ==
    [commit_hash |-> h,
     work_type |-> "feature",
     bullet |-> "- [feature] " \o Backtick \o h \o Backtick \o ": Add retry to the cache loader",
     team_snippet |-> "cache loader retry"]

\* an object about another commit, with a work type outside the enumeration
ForeignObject ==
    [commit_hash |-> "deadbeef",
     work_type |-> "enhancement",
     bullet |-> "- " \o Backtick \o "deadbeef" \o Backtick \o ": Improve \"things\"",
     team_snippet |-> "Improved a number of things across the parser, the cache and the docs."]

\* an object whose bullet is a number and not a string
NumberBulletObject(h) ==
    [commit_hash |-> h,
     work_type |-> "chore",
     bullet |-> NumberValue("5"),
     team_snippet |-> "dependency bump"]

\* an object without commit_hash and bullet and with an empty work_type
PartialObject == [work_type |-> "", team_snippet |-> "parser fixes"]

ResponseTexts(h) ==
    {<<Obj(GoodObject(h), FALSE, FALSE)>>,
     <<Prose, Fence, Obj(ForeignObject, TRUE, TRUE), Fence, Prose>>,
     <<Obj(PartialObject, FALSE, FALSE)>>,
     <<Obj(NumberBulletObject(h), FALSE, FALSE)>>,
     <<Obj(EmptyDict, FALSE, FALSE)>>,
     <<Val(PyOther("list", TRUE))>>,
     <<Prose>>}

ChatError ==
    [type |-> "ResponseError", text |-> "model \"llama3\" not found"]
\* summarize.py 82-92, shortened to its first line and the error detail
ClientError ==
    [type |-> "RuntimeError", text |-> "Failed to connect to Ollama server.\n\nConnection refused"]

NoCall == [k |-> "none", text |-> <<>>, exc |-> NoExc]
Resp(text) == [k |-> "resp", text |-> text, exc |-> NoExc]
\* client.chat raises
ChatRaises == [k |-> "raise", text |-> <<>>, exc |-> ChatError]
\* get_ollama_client raises before any chat call
NoClient == [k |-> "no_client", text |-> <<>>, exc |-> ClientError]

StrictOutcomes(h) == {Resp(t) : t \in ResponseTexts(h)} \cup {ChatRaises, NoClient}
RelaxedOutcomes(h) == {Resp(t) : t \in ResponseTexts(h)} \cup {ChatRaises}

(***************************************************************************)
(* State.                                                                  *)
(***************************************************************************)
VARIABLES
    files,        \* path -> content of the cache file
    pc,           \* position of the running function
    commit_block, \* commit_block of the current invocation
    cache_path,   \* its cache_path argument
    commit_hash,  \* its local commit_hash
    commit_msg,   \* its local commit_msg
    loaded,       \* what its load_cache call returned
    mem_cache,    \* its local dict cache
    calls,        \* the client.chat calls it has made, in order
    strict,       \* what the JSON-mode call did
    relaxed,      \* what the call without format did
    result,       \* the dict it returned
    source,       \* where result came from: "cache", "model", "heuristic", "except"
    raised,       \* the exception that left it
    again,        \* it was started right after an invocation with the same arguments returned
    before,       \* when again: what that invocation returned
    repos,        \* scan_all: the repositories to scan, each with what git does in it
    idx,          \* scan_all: the number of repositories the loop has scanned
    raw_logs,     \* what get_commits_from_repo returned for each of them
    summaries,    \* scan_all: its local list summaries
    scan_result,  \* the ScanResult returned
    time_window,  \* generate_repo_standup_paragraph: its argument time_window
    bullets,      \* its argument bullets
    team_snips,   \* its argument team_snips
    repo_summaries, \* generate_team_scrum_paragraph: its argument repo_summaries
    scan_mode,    \* its argument mode
    prompt,       \* the bullets or repository lines the aggregator put into its prompt
    chat,         \* what _chat did in the aggregator
    paragraph,    \* the paragraph the aggregator returned
    _ollama_available, \* LLMSummarizer: its field of that name, "None", "True" or "False"
    _client,      \* summarize.py: the module has a validated client
    at,           \* where summarize_scan_result is
    repo_idx,     \* the number of repositories its loop has summarized
    commit_idx,   \* the number of commits summarize_repository has summarized
    entry,        \* the method of LLMSummarizer the caller called
    callback,     \* the progress_callback given: "none", "records" or "raises"
    events,       \* the ScanProgress events the callback has been called with
    classified,   \* history: the commit blocks classify has returned a classification for
    runs,         \* history: the number of processes started so far
    earlier,      \* history: the repositories an earlier summarize_scan_result call returned
    probe,        \* test_connection: what the configuration and the service did
    max_repos,    \* config.scanning.max_repos: <<>> for None, else <<n>>
    selected_repos, \* scan_all: its argument of that name, <<>> for None, else <<list>>
    discovered,   \* what find_git_repos returns for the configured root
    peer          \* a second classify invocation on the same cache file

\* the variables of classify_and_summarize_commit
classifyVars == <<files, commit_block, cache_path, commit_hash, commit_msg, loaded, mem_cache,
                  calls, strict, relaxed, result, source, again, before>>

\* the variables of the scanner
scanVars == <<repos, idx, raw_logs, summaries, scan_result>>

\* the variables of the aggregators
aggVars == <<time_window, bullets, team_snips, repo_summaries, scan_mode, prompt, chat, paragraph>>

\* the variables of the pipeline around classify
\* the variables of the summarizer, which also works on scan_result
sumVars == <<_ollama_available, _client, at, repo_idx, commit_idx, entry>>

\* the progress callback of a pass and what it has seen
progressVars == <<callback, events>>

\* what has happened over the runs of the program
historyVars == <<classified, runs, earlier>>

\* what test_connection met
probeVars == <<probe>>

\* the configuration and arguments of scan_all
findVars == <<max_repos, selected_repos, discovered>>

\* the second invocation
peerVars == <<peer>>

pipelineVars == <<scanVars, aggVars, sumVars, progressVars, historyVars, probeVars,
                 findVars, peerVars>>

vars == <<pc, raised, classifyVars, pipelineVars>>

\* no ScanResult yet
NoResult ==
    [repositories |-> <<>>, team_summary |-> "", scan_mode |-> "", since_date |-> "",
     to_date |-> ""]

\* no scan is running
ScanIdle ==
    /\ repos = <<>>
    /\ idx = 0
    /\ raw_logs = <<>>
    /\ summaries = <<>>
    /\ scan_result = NoResult

\* no aggregator is running
AggregateIdle ==
    /\ time_window = ""
    /\ bullets = <<>>
    /\ team_snips = <<>>
    /\ repo_summaries = <<>>
    /\ scan_mode = ""
    /\ prompt = <<>>
    /\ chat = NoCall
    /\ paragraph = ""

\* no summarizer has been used
SummarizeIdle ==
    /\ _ollama_available = "None"
    /\ _client = FALSE
    /\ at = "idle"
    /\ repo_idx = 0
    /\ commit_idx = 0
    /\ entry = ""

\* no progress callback
ProgressIdle ==
    /\ callback = "none"
    /\ events = <<>>

\* the first process, nothing classified yet
NoHistory ==
    /\ classified = {}
    /\ earlier = <<>>
    /\ runs = 1

\* test_connection has not been called
NoProbe == [conn |-> "", listing |-> NoCall]
ProbeIdle == probe = NoProbe

\* scan_all has not been called with a configuration
FindIdle == max_repos = <<>> /\ selected_repos = <<>> /\ discovered = <<>>

\* there is no second invocation
NoPeer == [pc |-> "none"]
PeerIdle == peer = NoPeer

PipelineIdle ==
    ScanIdle /\ AggregateIdle /\ SummarizeIdle /\ ProgressIdle /\ NoHistory /\ ProbeIdle /\ FindIdle /\ PeerIdle

\* no classification is running
ClassifyIdle ==
    /\ files = [p \in Paths |-> NoFile]
    /\ commit_block = ""
    /\ cache_path = NonePath
    /\ commit_hash = ""
    /\ commit_msg = ""
    /\ loaded = EmptyDict
    /\ mem_cache = EmptyDict
    /\ calls = <<>>
    /\ strict = NoCall
    /\ relaxed = NoCall
    /\ result = EmptyDict
    /\ source = ""
    /\ again = FALSE
    /\ before = EmptyDict

(***************************************************************************)
(* classify_and_summarize_commit (summarize.py, 243-376).                  *)
(***************************************************************************)
SnippetLen == 60

\* f"- [{wt}] `{commit_hash}`: {commit_msg or 'Updated files'}"
DefaultBullet(wt) ==
    "- [" \o wt \o "] " \o Backtick \o commit_hash \o Backtick \o ": "
        \o (IF commit_msg = "" THEN "Updated files" ELSE commit_msg)

\* (commit_msg or "updates")[:60].rstrip(".")
DefaultSnippet ==
    RStripDot(Prefix(IF commit_msg = "" THEN "updates" ELSE commit_msg, SnippetLen))

\* summarize.py 339-345
HeuristicData ==
    [commit_hash |-> commit_hash,
     work_type |-> _heuristic_work_type(commit_msg),
     bullet |-> DefaultBullet(_heuristic_work_type(commit_msg)),
     team_snippet |-> DefaultSnippet]

\* "key" not in data or not data["key"]
Lacks(data, key) == key \notin DOMAIN data \/ data[key] = ""

ObjectFields == {"commit_hash", "work_type", "bullet", "team_snippet"}

\* summarize.py 349-357: each field the dict lacks gets its default; the
\* default bullet is built from the work type the line before it left
Sanitize(data) ==
    [f \in DOMAIN data \cup ObjectFields |->
        IF f \notin ObjectFields \/ ~Lacks(data, f) THEN data[f]
        ELSE CASE f = "commit_hash" -> commit_hash
               [] f = "work_type" -> _heuristic_work_type(commit_msg)
               [] f = "bullet" ->
                    DefaultBullet(IF Lacks(data, "work_type")
                                  THEN _heuristic_work_type(commit_msg)
                                  ELSE data["work_type"])
               [] f = "team_snippet" -> DefaultSnippet]

\* summarize.py 367-372
Fallback(exc) ==
    [commit_hash |-> commit_hash,
     work_type |-> _heuristic_work_type(commit_msg),
     bullet |-> "- " \o Backtick \o "[" \o _heuristic_work_type(commit_msg) \o "] "
                  \o commit_hash \o Backtick \o ": (summary unavailable) " \o exc.text,
     team_snippet |-> "updates"]

\* data.get(...) at line 347 on a value that is no dict
NotADict(kind) ==
    [type |-> "AttributeError",
     text |-> "'" \o kind \o "' object has no attribute 'get'"]

\* the try body ends by raising exc
Raised(exc) == [exc |-> exc, source |-> "", data |-> EmptyDict]

\* summarize.py 336-357 for the parse result data of the last model call:
\* the dict to cache, or the exception raised on the way
AfterParse(data) ==
    IF ~data.truthy
    THEN [exc |-> NoExc, source |-> "heuristic", data |-> Sanitize(HeuristicData)]
    ELSE IF data.k # "dict"
    THEN Raised(NotADict(data.k))
    ELSE [exc |-> NoExc, source |-> "model", data |-> Sanitize(data.d)]

\* an except clause for the errors of the model client only
CatchesClientErrors(exc) == exc.type \in {"ResponseError", "RuntimeError"}

\* summarize.py 365: except Exception catches every exception class
Catches(exc) == TRUE

\* the test of line 325 turned around
RetryInverted(data) == data.truthy

\* summarize.py 325: if not data
NeedsRetry(data) == ~data.truthy

\* summarize.py 265
LoadPath(p) == IF p = NonePath THEN DEFAULT_CACHE_PATH ELSE p
\* summarize.py 268, 361, 374: save_cache(cache) is given no path
SavePath(p) == DEFAULT_CACHE_PATH

\* the file an earlier run left: Block1, classified as the prompt asks
EarlierRun == json_dumps("a1b2c3d" :> GoodObject("a1b2c3d"))

Init ==
    /\ files \in [Paths -> {NoFile, GarbageFile, EarlierRun}]
    /\ pc = "idle"
    /\ commit_block = ""
    /\ cache_path = NonePath
    /\ commit_hash = ""
    /\ commit_msg = ""
    /\ loaded = EmptyDict
    /\ mem_cache = EmptyDict
    /\ calls = <<>>
    /\ strict = NoCall
    /\ relaxed = NoCall
    /\ result = EmptyDict
    /\ source = ""
    /\ raised = NoExc
    /\ again = FALSE
    /\ before = EmptyDict
    /\ PipelineIdle

\* summarize.py 260-273; the calls of lines 265-268 are outside the try statement
Begin(b, p) ==
    /\ pc \in {"idle", "returned", "raised"}
    /\ commit_block' = b
    /\ cache_path' = p
    /\ again' = (pc = "returned" /\ b = commit_block /\ p = cache_path)
    /\ before' = IF again' THEN result ELSE EmptyDict
    /\ calls' = <<>>
    /\ strict' = NoCall
    /\ relaxed' = NoCall
    /\ commit_hash' = IF _extract_commit_hash(b) = "" THEN NoHash ELSE _extract_commit_hash(b)
    /\ commit_msg' = _extract_commit_message(b)
    /\ loaded' = load_cache(files[LoadPath(p)])
    /\ IF PurgeRaises(loaded')
       THEN /\ pc' = "raised"
            /\ raised' = PurgeError
            /\ mem_cache' = loaded'
            /\ result' = EmptyDict
            /\ source' = ""
            /\ UNCHANGED files
       ELSE /\ raised' = NoExc
            /\ mem_cache' = purge_bad_entries(loaded')
            /\ files' = [files EXCEPT ![SavePath(p)] = save_cache(mem_cache')]
            /\ IF get_cached(commit_hash', mem_cache').truthy
               THEN pc' = "returned" /\ result' = get_cached(commit_hash', mem_cache').d
                        /\ source' = "cache"
               ELSE pc' = "strict" /\ result' = EmptyDict /\ source' = ""

\* summarize.py 359-363 and 373-376: put, save, return
Return(value, src) ==
    /\ result' = value
    /\ source' = src
    /\ mem_cache' = put_cached(commit_hash, result', mem_cache)
    /\ files' = [files EXCEPT ![SavePath(cache_path)] = save_cache(mem_cache')]
    /\ raised' = NoExc
    /\ pc' = "returned"

\* the end of the try statement for what its body came to
Settle(out) ==
    IF out.exc # NoExc /\ ~Catches(out.exc)
    THEN /\ pc' = "raised"
         /\ raised' = out.exc
         /\ UNCHANGED <<files, mem_cache, result, source>>
    ELSE Return(IF out.exc = NoExc THEN out.data ELSE Fallback(out.exc),
                IF out.exc = NoExc THEN out.source ELSE "except")

\* summarize.py 310-325: get the client, ask in JSON mode, parse
StrictCall(o) ==
    /\ pc = "strict"
    /\ strict' = o
    /\ calls' = IF o.k = "no_client" THEN calls ELSE Append(calls, "strict")
    /\ IF o.k = "resp" /\ NeedsRetry(_try_parse_json(o.text))
       THEN pc' = "relaxed" /\ UNCHANGED <<files, mem_cache, result, source, raised>>
       ELSE Settle(IF o.k # "resp" THEN Raised(o.exc) ELSE AfterParse(_try_parse_json(o.text)))
    /\ UNCHANGED <<commit_block, cache_path, commit_hash, commit_msg, loaded, relaxed, again,
                   before>>

\* summarize.py 327-334: ask again without format, parse
RelaxedCall(o) ==
    /\ pc = "relaxed"
    /\ relaxed' = o
    /\ calls' = Append(calls, "relaxed")
    /\ Settle(IF o.k # "resp" THEN Raised(o.exc) ELSE AfterParse(_try_parse_json(o.text)))
    /\ UNCHANGED <<commit_block, cache_path, commit_hash, commit_msg, loaded, strict, again,
                   before>>

Next ==
    \/ \E b \in Blocks, p \in CachePathArgs : Begin(b, p) /\ UNCHANGED pipelineVars
    \/ \E o \in StrictOutcomes(commit_hash) : StrictCall(o) /\ UNCHANGED pipelineVars
    \/ \E o \in RelaxedOutcomes(commit_hash) : RelaxedCall(o) /\ UNCHANGED pipelineVars

Spec == Init /\ [][Next]_vars

(***************************************************************************)
(* _heuristic_work_type on its own (summarize.py, 217-237): the messages   *)
(* are the concatenations of at most MaxFragments fragments.               *)
(***************************************************************************)
MaxFragments == 2

Fragments ==
    {"Fix", "fi", "x ", "add", "refactor", "doc", "spec", "ific", "UNIT", "test", "perf",
     "build", "ci", "bump"}

RECURSIVE Concat(_)
Concat(w) == IF w = <<>> THEN "" ELSE Head(w) \o Concat(Tail(w))

Messages == {Concat(w) : w \in UNION {[1..n -> Fragments] : n \in 0..MaxFragments}}

InitHeuristic ==
    /\ commit_msg \in Messages
    /\ files = [p \in Paths |-> NoFile]
    /\ pc = "idle"
    /\ commit_block = ""
    /\ cache_path = NonePath
    /\ commit_hash = ""
    /\ loaded = EmptyDict
    /\ mem_cache = EmptyDict
    /\ calls = <<>>
    /\ strict = NoCall
    /\ relaxed = NoCall
    /\ result = EmptyDict
    /\ source = ""
    /\ raised = NoExc
    /\ again = FALSE
    /\ before = EmptyDict
    /\ PipelineIdle

\* summarize.py 217-237: one call of _heuristic_work_type(commit_msg)
Heuristic ==
    /\ pc = "idle"
    /\ pc' = "returned"
    /\ result' = [work_type |-> _heuristic_work_type(commit_msg)]
    /\ source' = "heuristic"
    /\ UNCHANGED <<files, commit_block, cache_path, commit_hash, commit_msg, loaded, mem_cache,
                   calls, strict, relaxed, raised, again, before>>
    /\ UNCHANGED pipelineVars

NextHeuristic == Heuristic

SpecHeuristic == InitHeuristic /\ [][NextHeuristic]_vars

(***************************************************************************)
(* save_cache and load_cache on their own (cache.py, 9-19): the mapping    *)
(* holds an entry whose strings are made of at most MaxStrLen characters,  *)
(* among them the ones json.dumps escapes.                                 *)
(***************************************************************************)
MaxStrLen == 2

CacheAlphabet == {"a", "n", Quote, Backslash, "\n"}

RECURSIVE StrsOfLen(_)
StrsOfLen(n) ==
    IF n = 0 THEN {""} ELSE {s \o c : s \in StrsOfLen(n - 1), c \in CacheAlphabet}

CacheStrings == UNION {StrsOfLen(n) : n \in 0..MaxStrLen}

\* a classification object with the string s in its texts
CacheObject(h, s) ==
    [commit_hash |-> h,
     work_type |-> "other",
     bullet |-> "- [other] " \o Backtick \o h \o Backtick \o ": " \o s,
     team_snippet |-> s]

CacheMaps ==
    {EmptyDict, "unknown" :> GoodObject("unknown")}
    \cup {"a1b2c3d" :> CacheObject("a1b2c3d", s) : s \in CacheStrings}
    \cup {("a1b2c3d" :> CacheObject("a1b2c3d", s)) @@ ("unknown" :> GoodObject("unknown")) :
            s \in CacheStrings}

InitCache ==
    /\ mem_cache \in CacheMaps
    /\ files = [p \in Paths |-> NoFile]
    /\ pc = "idle"
    /\ commit_block = ""
    /\ cache_path = NonePath
    /\ commit_hash = ""
    /\ commit_msg = ""
    /\ loaded = EmptyDict
    /\ calls = <<>>
    /\ strict = NoCall
    /\ relaxed = NoCall
    /\ result = EmptyDict
    /\ source = ""
    /\ raised = NoExc
    /\ again = FALSE
    /\ before = EmptyDict
    /\ PipelineIdle

\* cache.py 18-19: save_cache(mem_cache, p)
Save(p) ==
    /\ pc = "idle"
    /\ pc' = "saved"
    /\ cache_path' = p
    /\ files' = [files EXCEPT ![p] = save_cache(mem_cache)]
    /\ UNCHANGED <<commit_block, commit_hash, commit_msg, loaded, mem_cache, calls, strict,
                   relaxed, result, source, raised, again, before>>
    /\ UNCHANGED pipelineVars

\* cache.py 9-16: load_cache(cache_path)
Load ==
    /\ pc = "saved"
    /\ pc' = "loaded"
    /\ loaded' = load_cache(files[cache_path])
    /\ UNCHANGED <<files, commit_block, cache_path, commit_hash, commit_msg, mem_cache, calls,
                   strict, relaxed, result, source, raised, again, before>>
    /\ UNCHANGED pipelineVars

NextCache ==
    \/ \E p \in Paths : Save(p)
    \/ Load

SpecCache == InitCache /\ [][NextCache]_vars

(***************************************************************************)
(* The first lines of classify_and_summarize_commit on their own           *)
(* (summarize.py, 265-270): load_cache, purge_bad_entries and get_cached   *)
(* on a cache file of any content.  Here loaded holds the Python value     *)
(* load_cache returned.                                                    *)
(***************************************************************************)
\* an entry as the except clause of an earlier run stored it
FailedObject(h) ==
    [commit_hash |-> h,
     work_type |-> "other",
     bullet |-> "- " \o Backtick \o "[other] " \o h \o Backtick
                  \o ": (summary unavailable) Failed to connect to Ollama",
     team_snippet |-> "updates"]

\* the file an earlier run left when the model could not be reached
FailedRun == json_dumps("a1b2c3d" :> FailedObject("a1b2c3d"))

LoadFiles == {NoFile, UnreadableFile, GarbageFile, ListFile, NullFile, EarlierRun, FailedRun}

\* the file holds a JSON object of hash: object members
IsMappingFile(file) == file.k = "json" /\ TextOk(file.members)

\* cache.items() at cache.py 29 on a value that is no dict
NoItems(kind) ==
    [type |-> "AttributeError",
     text |-> "'" \o (IF kind = "none" THEN "NoneType" ELSE kind)
                \o "' object has no attribute 'items'"]

InitLoad ==
    /\ files \in [Paths -> LoadFiles]
    /\ cache_path \in CachePathArgs
    /\ commit_hash \in {"a1b2c3d", NoHash}
    /\ pc = "idle"
    /\ commit_block = ""
    /\ commit_msg = ""
    /\ loaded = PyNone
    /\ mem_cache = EmptyDict
    /\ calls = <<>>
    /\ strict = NoCall
    /\ relaxed = NoCall
    /\ result = EmptyDict
    /\ source = ""
    /\ raised = NoExc
    /\ again = FALSE
    /\ before = EmptyDict
    /\ PipelineIdle

\* summarize.py 265
LoadStep ==
    /\ pc = "idle"
    /\ pc' = "loaded"
    /\ loaded' = load_cache_value(files[LoadPath(cache_path)])
    /\ UNCHANGED <<files, commit_block, cache_path, commit_hash, commit_msg, mem_cache, calls,
                   strict, relaxed, result, source, raised, again, before>>
    /\ UNCHANGED pipelineVars

\* summarize.py 267-268: outside the try statement of line 310
PurgeStep ==
    /\ pc = "loaded"
    /\ IF loaded.k = "dict"
       THEN /\ mem_cache' = purge_bad_entries(loaded.d)
            /\ files' = [files EXCEPT ![SavePath(cache_path)] = save_cache(mem_cache')]
            /\ pc' = "purged"
            /\ UNCHANGED raised
       ELSE /\ raised' = NoItems(loaded.k)
            /\ pc' = "raised"
            /\ UNCHANGED <<files, mem_cache>>
    /\ UNCHANGED <<commit_block, cache_path, commit_hash, commit_msg, loaded, calls, strict,
                   relaxed, result, source, again, before>>
    /\ UNCHANGED pipelineVars

\* summarize.py 270-273
LookupStep ==
    /\ pc = "purged"
    /\ IF get_cached(commit_hash, mem_cache).truthy
       THEN /\ pc' = "returned"
            /\ result' = get_cached(commit_hash, mem_cache).d
            /\ source' = "cache"
       ELSE /\ pc' = "strict"
            /\ UNCHANGED <<result, source>>
    /\ UNCHANGED <<files, commit_block, cache_path, commit_hash, commit_msg, loaded, mem_cache,
                   calls, strict, relaxed, raised, again, before>>
    /\ UNCHANGED pipelineVars

NextLoad ==
    \/ LoadStep
    \/ PurgeStep
    \/ LookupStep

SpecLoad == InitLoad /\ [][NextLoad]_vars

(***************************************************************************)
(* purge_bad_entries on its own (cache.py, 27-35), applied twice to a      *)
(* mapping of hashes to objects.  result is the dict the last call         *)
(* returned and before the dict the call before it returned.               *)
(***************************************************************************)
PurgeHashes == {"a1b2c3d", "deadbeef", NoHash}

\* an entry without a bullet
NoBulletObject == [work_type |-> "docs", team_snippet |-> "readme"]

PurgeEntries(h) == {GoodObject(h), FailedObject(h), NoBulletObject}

PurgeMaps ==
    UNION {[hs -> UNION {PurgeEntries(h) : h \in PurgeHashes}] : hs \in SUBSET PurgeHashes}

InitPurge ==
    /\ mem_cache \in PurgeMaps
    /\ loaded = mem_cache
    /\ files = [p \in Paths |-> NoFile]
    /\ pc = "idle"
    /\ commit_block = ""
    /\ cache_path = NonePath
    /\ commit_hash = ""
    /\ commit_msg = ""
    /\ calls = <<>>
    /\ strict = NoCall
    /\ relaxed = NoCall
    /\ result = EmptyDict
    /\ source = ""
    /\ raised = NoExc
    /\ again = FALSE
    /\ before = EmptyDict
    /\ PipelineIdle

\* cache.py 27-35: cache = purge_bad_entries(cache), the dict is changed in place
Purge ==
    /\ pc \in {"idle", "purged"}
    /\ pc' = IF pc = "idle" THEN "purged" ELSE "purged_twice"
    /\ before' = result
    /\ result' = purge_bad_entries(mem_cache)
    /\ mem_cache' = result'
    /\ again' = (pc = "purged")
    /\ UNCHANGED <<files, commit_block, cache_path, commit_hash, commit_msg, loaded, calls,
                   strict, relaxed, source, raised>>
    /\ UNCHANGED pipelineVars

NextPurge == Purge

SpecPurge == InitPurge /\ [][NextPurge]_vars

(***************************************************************************)
(* The extractor (multi_repo_git_utils.py) and the scanner (scanner.py).   *)
(* A text of several lines is the sequence of its lines; the text the      *)
(* extractor returns is the sequence of its ===COMMIT=== separated blocks, *)
(* each a sequence of lines, and the empty text is the empty sequence.     *)
(***************************************************************************)
EXCLUDED_PATTERNS ==
    {"venv/", ".venv/", "__pycache__", ".git/", "env/", "site-packages", "/bin/", "/lib/",
     "dist-info"}

\* Path(s).as_posix() keeps the character at position i: the "." components, the
\* repeated slashes and the trailing slash go
PosixKeeps(s, i) ==
    LET IsSlash(j) == CharAt(s, j) = "/"
        IsReal(j) == /\ ~IsSlash(j)
                     /\ (j = 1 \/ IsSlash(j - 1))
                     /\ ~(CharAt(s, j) = "." /\ (j = Len(s) \/ IsSlash(j + 1)))
    IN  IF IsSlash(i)
        THEN i < Len(s) /\ IsReal(i + 1) /\ \E j \in 1..(i - 1) : IsReal(j)
        ELSE ~(/\ CharAt(s, i) = "."
               /\ (i = 1 \/ IsSlash(i - 1))
               /\ (i = Len(s) \/ IsSlash(i + 1)))

RECURSIVE PosixRange(_, _, _)
PosixRange(s, lo, hi) ==
    IF lo > hi THEN ""
    ELSE IF lo = hi THEN (IF PosixKeeps(s, lo) THEN CharAt(s, lo) ELSE "")
    ELSE PosixRange(s, lo, (lo + hi) \div 2) \o PosixRange(s, (lo + hi) \div 2 + 1, hi)

\* Path(s).as_posix() on a POSIX system
as_posix(s) ==
    LET root == IF Len(s) >= 1 /\ CharAt(s, 1) = "/"
                THEN IF Len(s) >= 2 /\ CharAt(s, 2) = "/" /\ ~(Len(s) >= 3 /\ CharAt(s, 3) = "/")
                     THEN 2 ELSE 1
                ELSE 0
        text == SubSeq(s, 1, root) \o PosixRange(s, root + 1, Len(s))
    IN  IF text = "" THEN "." ELSE text

\* multi_repo_git_utils.py 29-31
should_exclude(line) == AnyIn(EXCLUDED_PATTERNS, Lower(as_posix(Strip(line))))

\* what a git call does: exit code 0 with its output, another exit code, an exception
GitOk(out) == [k |-> "ok", out |-> out, text |-> ""]
GitExit == [k |-> "exit", out |-> <<>>, text |-> "fatal: not a git repository"]
GitRaises == [k |-> "raise", out |-> <<>>, text |-> "[Errno 2] No such file or directory"]

\* a commit of a repository: %h, %s, its --name-only lines and what
\* git show --shortstat does for it (out: the stat line)
GitCommits ==
    [fix |-> [hash |-> "a1b2c3d", subject |-> "Fix crash in the commit parser",
              files |-> <<"src/journal/cache.py", "src/core/scanner.py", "README.md">>,
              stat |-> GitOk(" 3 files changed, 45 insertions(+), 12 deletions(-)")],
     docs |-> [hash |-> "b2c3d4e", subject |-> "Add usage notes to README.",
               files |-> <<"venv/lib/site.py", "README.md">>,
               stat |-> GitOk(" 1 file changed, 2 insertions(+)")],
     vendored |-> [hash |-> "c3d4e5f", subject |-> "bump vendored packages",
                   files |-> <<"venv/lib/x.py", "Lib/site-packages/y.py",
                               "tools//.venv/./z.py">>,
                   stat |-> GitOk(" 3 files changed, 9 insertions(+), 9 deletions(-)")],
     merge |-> [hash |-> "d4e5f6a", subject |-> "Merge branch 'main'",
                files |-> <<>>,
                stat |-> GitOk("")],
     nostat |-> [hash |-> "e5f6a7b", subject |-> "refactor scanner loop",
                 files |-> <<"src/core/scanner.py">>,
                 stat |-> GitExit],
     badstat |-> [hash |-> "f6a7b8c", subject |-> "update ci workflow",
                  files |-> <<".github/workflows/ci.yml">>,
                  stat |-> GitRaises],
     counted |-> [hash |-> "0a1b2c3",
                  subject |-> "log that 9 files changed and 4 deletions(-) happened",
                  files |-> <<"src/log.py">>,
                  stat |-> GitOk(" 1 file changed, 1 insertion(+)")]]

\* the repositories: name and what git log does in the window (out: the commits)
GitRepos ==
    {[name |-> "devdiary",
      log |-> GitOk(<<GitCommits.fix, GitCommits.vendored, GitCommits.docs>>)],
     [name |-> "notes", log |-> GitOk(<<>>)],
     [name |-> "vendor", log |-> GitOk(<<GitCommits.vendored, GitCommits.merge>>)],
     [name |-> "scratch", log |-> GitExit],
     [name |-> "gone", log |-> GitRaises],
     [name |-> "tools", log |-> GitOk(<<GitCommits.nostat, GitCommits.badstat>>)],
     [name |-> "logger", log |-> GitOk(<<GitCommits.counted>>)]}

\* --pretty=format:%h %s, and the first line of git show --oneline
Header(c) == c.hash \o " " \o c.subject

\* multi_repo_git_utils.py 41-56: the lines of the text returned
get_commit_diff_stats(c) ==
    CASE c.stat.k = "ok" -> <<Header(c), c.stat.out>>
      [] c.stat.k = "exit" -> <<"[Error fetching diff: " \o c.stat.text \o "]">>
      [] OTHER -> <<"[Exception: " \o c.stat.text \o "]">>

\* multi_repo_git_utils.py 86
FilteredFiles(c) == SelectSeq(c.files, LAMBDA f : ~should_exclude(f))

\* a loop that keeps every commit block
KeepsEveryBlock(c) == TRUE

\* multi_repo_git_utils.py 88: if filtered_files
KeepsBlock(c) == FilteredFiles(c) # <<>>

\* multi_repo_git_utils.py 59-102
get_commits_from_repo(repo) ==
    LET kept == SelectSeq(repo.log.out, KeepsBlock)
    IN  CASE repo.log.k = "raise" ->
                <<<<"[Error reading repo " \o repo.name \o "]: " \o repo.log.text>>>>
          [] repo.log.k = "exit" -> <<>>
          [] OTHER ->
                [i \in 1..Len(kept) |->
                    <<Header(kept[i])>> \o FilteredFiles(kept[i]) \o <<"">>
                        \o get_commit_diff_stats(kept[i])]

\* str.split(maxsplit=1)
SplitOnce(s) ==
    LET t == LStrip(s)
        sp == First({i \in 1..Len(t) : IsSpace(CharAt(t, i))}, Len(t) + 1)
        rest == LStrip(SubSeq(t, sp, Len(t)))
    IN  IF t = "" THEN <<>>
        ELSE IF rest = "" THEN <<SubSeq(t, 1, sp - 1)>>
        ELSE <<SubSeq(t, 1, sp - 1), rest>>

\* scanner.py 266-297: RepositoryScanner._heuristic_work_type, the value of the WorkType
Scanner_heuristic_work_type(message) ==
    LET msg_lower == Lower(message)
    IN  IF AnyIn({"fix", "bug", "hotfix", "patch"}, msg_lower) THEN "bugfix"
        ELSE IF AnyIn({"feat", "feature", "add", "implement"}, msg_lower) THEN "feature"
        ELSE IF AnyIn({"refactor", "cleanup", "restructure"}, msg_lower) THEN "refactor"
        ELSE IF AnyIn({"doc", "readme", "changelog"}, msg_lower) THEN "docs"
        ELSE IF AnyIn({"test", "spec", "unit test", "unittest"}, msg_lower) THEN "test"
        ELSE IF AnyIn({"perf", "optimiz"}, msg_lower) THEN "perf"
        ELSE IF AnyIn({"build", "packag"}, msg_lower) THEN "build"
        ELSE IF AnyIn({"ci", "pipeline", "workflow"}, msg_lower) THEN "ci"
        ELSE IF AnyIn({"chore", "deps", "dependency", "bump"}, msg_lower) THEN "chore"
        ELSE "other"

\* int(s) of a run of decimal digits
RECURSIVE ParseInt(_)
ParseInt(s) ==
    IF s = "" THEN 0
    ELSE ParseInt(SubSeq(s, 1, Len(s) - 1)) * 10
            + (CHOOSE d \in 0..9 : CharAt(Digits, d + 1) = CharAt(s, Len(s)))

\* re.search(r'(\d+) <unit>s?<tail>', output).group(1) of the leftmost match, "" without one
SearchCount(output, unit, tail) ==
    LET IsDigit(i) == Contains(CharAt(output, i), Digits)
        At(i, w) == i + Len(w) - 1 <= Len(output) /\ SubSeq(output, i, i + Len(w) - 1) = w
        ends == {i \in 1..Len(output) :
                    /\ IsDigit(i)
                    /\ At(i + 1, " " \o unit \o tail) \/ At(i + 1, " " \o unit \o "s" \o tail)}
        e == First(ends, 0)
    IN  IF ends = {} THEN ""
        ELSE SubSeq(output, Last({j \in 1..e : ~IsDigit(j)}) + 1, e)

\* scanner.py 36-84 for git show --shortstat --oneline of commit c: ok is FALSE for None;
\* the output searched is the header line followed by the stat line
get_commit_stats(c) ==
    LET output == Header(c) \o "\n" \o c.stat.out \o "\n"
        n(unit, tail) == ParseInt(SearchCount(output, unit, tail))
    IN  [ok |-> c.stat.k = "ok",
         files_changed |-> IF c.stat.k = "ok" THEN n("file", " changed") ELSE 0,
         insertions |-> IF c.stat.k = "ok" THEN n("insertion", "(+)") ELSE 0,
         deletions |-> IF c.stat.k = "ok" THEN n("deletion", "(-)") ELSE 0]

\* the commit of the repository that git show finds for a hash; for an unknown
\* hash, and where the log query raised, the call fails
Shown(repo, commit_hash_) ==
    LET found == {i \in 1..Len(repo.log.out) : repo.log.out[i].hash = commit_hash_}
    IN  IF found = {}
        THEN [hash |-> commit_hash_, subject |-> "", files |-> <<>>,
              stat |-> IF repo.log.k = "raise" THEN GitRaises ELSE GitExit]
        ELSE repo.log.out[First(found, 0)]

\* scanner.py 214-264: the CommitSummary of a block, <<>> for None
_parse_commit_block(block, repo) ==
    LET parts == IF block = <<>> THEN <<>> ELSE SplitOnce(Head(block))
        message == IF Len(parts) > 1 THEN parts[2] ELSE ""
        stats == get_commit_stats(Shown(repo, parts[1]))
    IN  IF parts = <<>> THEN <<>>
        ELSE <<[commit_hash |-> parts[1],
                work_type |-> Scanner_heuristic_work_type(message),
                bullet |-> "- " \o Backtick \o parts[1] \o Backtick \o ": " \o message,
                team_snippet |-> RStripDot(Prefix(message, SnippetLen)),
                message |-> message,
                files_changed |-> IF stats.ok THEN stats.files_changed ELSE 0,
                insertions |-> IF stats.ok THEN stats.insertions ELSE 0,
                deletions |-> IF stats.ok THEN stats.deletions ELSE 0]>>

\* scanner.py 190-212
RECURSIVE _parse_commits(_, _)
_parse_commits(raw_log, repo) ==
    IF raw_log = <<>> THEN <<>>
    ELSE _parse_commit_block(Head(raw_log), repo) \o _parse_commits(Tail(raw_log), repo)

\* scanner.py 173-177
WorkTypeCounts(commits) ==
    [wt \in {commits[i].work_type : i \in 1..Len(commits)} |->
        Cardinality({i \in 1..Len(commits) : commits[i].work_type = wt})]

\* scanner.py 136-188: the RepositorySummary, <<>> for None
scan_repository(repo) ==
    LET commits == _parse_commits(get_commits_from_repo(repo), repo)
    IN  IF commits = <<>> THEN <<>>
        ELSE <<[repo_name |-> repo.name,
                commits |-> commits,
                bullets |-> <<>>,
                team_snippets |-> <<>>,
                standup_summary |-> "",
                work_type_counts |-> WorkTypeCounts(commits)]>>

\* types.py 188-226: a ScanProgress event, without its message
ScanProgress(total, current, name, phase) ==
    [total_repos |-> total, current_repo |-> current, current_repo_name |-> name,
     phase |-> phase]

\* the most repositories in a scan
MaxRepos == 2

\* the lists of at most MaxRepos different repositories
RepoLists ==
    {r \in UNION {[1..n -> GitRepos] : n \in 0..MaxRepos} :
        \A i, j \in 1..Len(r) : i # j => r[i] # r[j]}

\* scan_all(mode, since_date, selected_repos=repos) is called
InitScan ==
    /\ repos \in RepoLists
    /\ idx = 0
    /\ raw_logs = <<>>
    /\ summaries = <<>>
    /\ scan_result = NoResult
    /\ pc = "scanning"
    /\ raised = NoExc
    /\ callback \in {"none", "records"}
    /\ events = <<>>
    /\ ClassifyIdle
    /\ AggregateIdle
    /\ SummarizeIdle
    /\ NoHistory
    /\ ProbeIdle
    /\ FindIdle
    /\ PeerIdle

\* scanner.py 343-351: the progress event at the start of a turn of the loop
ScanNotify ==
    /\ pc = "scanning"
    /\ idx < Len(repos)
    /\ callback # "none"
    /\ Len(events) = idx
    /\ events' = Append(events, ScanProgress(Len(repos), idx + 1, repos[idx + 1].name, "scanning"))
    /\ UNCHANGED <<findVars, peerVars, probeVars, historyVars, pc, raised, scanVars, classifyVars, aggVars, sumVars, callback>>

\* scanner.py 353-356: the rest of the turn
ScanRepository ==
    /\ pc = "scanning"
    /\ idx < Len(repos)
    /\ callback = "none" \/ Len(events) = idx + 1
    /\ idx' = idx + 1
    /\ raw_logs' = Append(raw_logs, get_commits_from_repo(repos[idx']))
    /\ summaries' = summaries \o scan_repository(repos[idx'])
    /\ UNCHANGED <<findVars, peerVars, probeVars, historyVars, pc, raised, repos, scan_result, classifyVars, aggVars, sumVars, progressVars>>

\* scanner.py 374-381, for scan_all(ScanMode.CUSTOM, since_date="2024-05-01")
ScanResult(summaries_) ==
    [repositories |-> summaries_, team_summary |-> "", scan_mode |-> "custom",
     since_date |-> "2024-05-01", to_date |-> ""]

\* scanner.py 358-381
ScanReturn ==
    /\ pc = "scanning"
    /\ idx = Len(repos)
    /\ events' = IF callback = "none" THEN events
                  ELSE Append(events, ScanProgress(Len(repos), Len(repos), "", "complete"))
    /\ scan_result' = ScanResult(summaries)
    /\ pc' = "scanned"
    /\ UNCHANGED <<findVars, peerVars, probeVars, historyVars, raised, repos, idx, raw_logs, summaries, classifyVars, aggVars, sumVars,
                   callback>>

NextScan ==
    \/ ScanNotify
    \/ ScanRepository
    \/ ScanReturn

SpecScan == InitScan /\ [][NextScan]_vars

(***************************************************************************)
(* scan_all under a configuration (scanner.py 106-134 and 299-381): the    *)
(* caller gives a list of repositories or leaves the discovery to          *)
(* find_repositories, and config.scanning.max_repos is None or a count.    *)
(***************************************************************************)

\* scanner.py 124-127: repos[: max_repos] when max_repos is not None
find_repositories(repos_, max) ==
    IF max = <<>> THEN repos_ ELSE Prefix(repos_, max[1])

\* config.py 67: None or a count
MaxRepoCounts == {<<>>} \cup {<<n>> : n \in 0..MaxRepos}

\* scan_all(mode, since_date, selected_repos) is called on a scanner with a configuration
InitScanAll ==
    /\ max_repos \in MaxRepoCounts
    /\ selected_repos \in {<<>>} \cup {<<r>> : r \in RepoLists}
    /\ discovered \in RepoLists
    /\ selected_repos # <<>> => discovered = <<>>
    /\ repos = <<>>
    /\ idx = 0
    /\ raw_logs = <<>>
    /\ summaries = <<>>
    /\ scan_result = NoResult
    /\ pc = "called"
    /\ raised = NoExc
    /\ callback \in {"none", "records"}
    /\ events = <<>>
    /\ ClassifyIdle
    /\ AggregateIdle
    /\ SummarizeIdle
    /\ NoHistory
    /\ ProbeIdle
    /\ PeerIdle

\* scanner.py 329-334: the repositories of the loop
ScanAllBegin ==
    /\ pc = "called"
    /\ repos' = IF selected_repos # <<>> THEN selected_repos[1]
                ELSE find_repositories(discovered, max_repos)
    /\ pc' = "scanning"
    /\ UNCHANGED <<findVars, peerVars, probeVars, historyVars, raised, idx, raw_logs, summaries,
                   scan_result, classifyVars, aggVars, sumVars, progressVars>>

NextScanAll ==
    \/ ScanAllBegin
    \/ ScanNotify
    \/ ScanRepository
    \/ ScanReturn

SpecScanAll == InitScanAll /\ [][NextScanAll]_vars

(***************************************************************************)
(* The aggregators generate_repo_standup_paragraph and                     *)
(* generate_team_scrum_paragraph (summarize.py, 378-468).  A response of   *)
(* _chat is Resp(text) with the content of the message as a string.        *)
(***************************************************************************)
MinStandupWords == 8
MinTeamWords == 10
MaxPromptBullets == 10
MaxPromptRepos == 8

\* summarize.py 143-155; no to_date is ""
_time_window_phrase(mode, since_date, to_date) ==
    CASE Lower(mode) = "today" -> "Today"
      [] Lower(mode) = "weekly" -> "In the last 7 days"
      [] Lower(mode) = "monthly" -> "In the last month"
      [] Prefix(Lower(mode), 6) = "custom" /\ since_date # "" /\ to_date # "" ->
            "From " \o since_date \o " to " \o to_date
      [] since_date # "" -> "Since " \o since_date
      [] OTHER -> "Recently"

\* len(text.split())
WordCount(text) ==
    Cardinality({i \in 1..Len(text) :
                    ~IsSpace(CharAt(text, i)) /\ (i = 1 \/ IsSpace(CharAt(text, i - 1)))})

\* the characters of the texts in code point order
CodePoints ==
    " !#$%&'()*+,-./0123456789:;<=>?@ABCDEFGHIJKLMNOPQRSTUVWXYZ[]^_abcdefghijklmnopqrstuvwxyz{|}~"

\* a < b for Python strings
StrLess(a, b) ==
    LET Code(c) == CHOOSE i \in 1..Len(CodePoints) : CharAt(CodePoints, i) = c
        d == First({i \in 1..Min(Len(a), Len(b)) : CharAt(a, i) # CharAt(b, i)}, 0)
    IN  IF d = 0 THEN Len(a) < Len(b) ELSE Code(CharAt(a, d)) < Code(CharAt(b, d))

\* sorted(S) of a set of strings
RECURSIVE Sorted(_)
Sorted(S) ==
    IF S = {} THEN <<>>
    ELSE LET least == CHOOSE x \in S : \A y \in S \ {x} : StrLess(x, y)
         IN  <<least>> \o Sorted(S \ {least})

\* sep.join(texts)
RECURSIVE Join(_, _)
Join(sep, texts) ==
    IF texts = <<>> THEN ""
    ELSE IF Len(texts) = 1 THEN Head(texts)
    ELSE Head(texts) \o sep \o Join(sep, Tail(texts))

\* a sanity check that wants more than min words
AcceptsAbove(text, min) == WordCount(text) > min

\* summarize.py 411 and 460: the response is not too short
Accepts(text, min) == WordCount(text) >= min

\* an aggregator that asks the model whatever it is given
SkipsNever(items) == FALSE

\* summarize.py 383 and 429: if not bullets, if not repo_summaries
SkipsModel(items) == items = <<>>

\* summarize.py 418-419
StandupFallback(tw, snips) ==
    tw \o ", I focused on "
       \o (IF snips = <<>> THEN "progress across multiple areas"
           ELSE Join(", ", Sorted({snips[i] : i \in 1..Len(snips)})))
       \o ". I wrapped up key changes and ensured things are stable."

\* a TypeError of str.join
JoinError ==
    [type |-> "TypeError", text |-> "sequence item 0: expected str instance, list found"]

\* str.join(items) and sorted(set(items)) raise TypeError for an array among the items
JoinRaises(items) == \E i \in 1..Len(items) : ~IsStr(items[i])

\* summarize.py 378-419 when _chat does o: the paragraph returned, the bullets
\* put into the prompt, whether get_ollama_client was called (asked) and
\* whether client.chat was (called)
\* (called); raises: a TypeError leaves the function, from the join of line 390
\* or from the fallback of line 418
generate_repo_standup_paragraph(tw, bullets_, snips, o) ==
    IF SkipsModel(bullets_)
    THEN [paragraph |-> "", prompt |-> <<>>, asked |-> FALSE, called |-> FALSE,
          raises |-> FALSE]
    ELSE IF JoinRaises(SubSeq(bullets_, 1, Min(MaxPromptBullets, Len(bullets_))))
    THEN [paragraph |-> "", prompt |-> <<>>, asked |-> FALSE, called |-> FALSE,
          raises |-> TRUE]
    ELSE [paragraph |-> IF o.k = "resp" /\ Accepts(Strip(o.text), MinStandupWords)
                        THEN Strip(o.text)
                        ELSE StandupFallback(tw, snips),
          prompt |-> SubSeq(bullets_, 1, Min(MaxPromptBullets, Len(bullets_))),
          asked |-> TRUE,
          called |-> o.k # "no_client",
          raises |-> ~(o.k = "resp" /\ Accepts(Strip(o.text), MinStandupWords))
                        /\ JoinRaises(snips)]

\* the lines of every repository with a paragraph
TeamLinesUncapped(summaries_) ==
    LET lines == SelectSeq(summaries_, LAMBDA r : Strip(r.standup_summary) # "")
    IN  [i \in 1..Len(lines) |->
            lines[i].repo_name \o ": " \o Strip(lines[i].standup_summary)]

\* summarize.py 435-441: the lines of joined
TeamLines(summaries_) ==
    LET lines == SelectSeq(summaries_, LAMBDA r : Strip(r.standup_summary) # "")
    IN  [i \in 1..Min(MaxPromptRepos, Len(lines)) |->
            lines[i].repo_name \o ": " \o Strip(lines[i].standup_summary)]

\* summarize.py 467-468
TeamFallback(tw, summaries_) ==
    tw \o ", the team advanced work across "
       \o Join(", ", [i \in 1..Len(summaries_) |-> summaries_[i].repo_name])
       \o ", making steady progress on features, fixes, and cleanup."

\* summarize.py 423-468 when _chat does o
generate_team_scrum_paragraph(summaries_, since_date, to_date, mode, o) ==
    IF SkipsModel(summaries_)
    THEN [paragraph |-> "", prompt |-> <<>>, asked |-> FALSE, called |-> FALSE,
          raises |-> FALSE]
    ELSE [paragraph |-> IF o.k = "resp" /\ Accepts(Strip(o.text), MinTeamWords)
                        THEN Strip(o.text)
                        ELSE TeamFallback(_time_window_phrase(mode, since_date, to_date),
                                          summaries_),
          prompt |-> TeamLines(summaries_),
          asked |-> TRUE,
          called |-> o.k # "no_client",
          raises |-> FALSE]

\* what _chat may do: contents of 0, 7, 8, 10 and 12 words, an exception
\* of client.chat, an exception of get_ollama_client
ChatOutcomes ==
    {Resp(t) : t \in {"",
                      "Fixed parser, added retries, and updated docs.",
                      "  Fixed parser, added retries, and updated the docs.\n",
                      "The team fixed parsers, added retries, and updated all docs.",
                      "I fixed the parser crash and added retry logic to the cache."}}
    \cup {ChatRaises, NoClient}

\* the arguments of generate_repo_standup_paragraph
StandupInputs ==
    [tw : {"Today", "Since 2024-05-01"},
     bullets : {<<>>,
                <<"- [bugfix] ^a1b2c3d^: Fix crash in the commit parser">>,
                <<"- [bugfix] ^a1b2c3d^: Fix crash in the commit parser",
                  "- [docs] ^b2c3d4e^: Add usage notes to README">>},
     snips : {<<>>, <<"">>, <<"fix parser">>,
              <<"fix parser", "Fix cache", "add docs", "fix parser">>}]

\* the most repository summaries given to generate_team_scrum_paragraph
MaxTeamRepos == 10

\* the first n of the repository summaries; with gaps, every third has no paragraph
TeamInput(n, gaps) ==
    [i \in 1..n |->
        [repo_name |-> "repo" \o ToString(i),
         standup_summary |-> IF gaps /\ i % 3 = 2 THEN " "
                             ELSE "Worked on repo" \o ToString(i) \o "."]]

InitAggregate ==
    /\ pc \in {"standup", "team"}
    /\ \E a \in StandupInputs, n \in 0..MaxTeamRepos, gaps \in BOOLEAN, m \in {"today", "custom"} :
          IF pc = "standup"
          THEN /\ time_window = a.tw
               /\ bullets = a.bullets
               /\ team_snips = a.snips
               /\ repo_summaries = <<>>
               /\ scan_mode = ""
          ELSE /\ time_window = ""
               /\ bullets = <<>>
               /\ team_snips = <<>>
               /\ repo_summaries = TeamInput(n, gaps)
               /\ scan_mode = m
    /\ prompt = <<>>
    /\ chat = NoCall
    /\ paragraph = ""
    /\ raised = NoExc
    /\ ClassifyIdle
    /\ ScanIdle
    /\ SummarizeIdle
    /\ ProgressIdle
    /\ NoHistory
    /\ ProbeIdle
    /\ FindIdle
    /\ PeerIdle

\* a call of an aggregator returns r after _chat did o
AggregatorReturns(r, o, name) ==
    /\ paragraph' = r.paragraph
    /\ prompt' = r.prompt
    /\ chat' = IF r.asked THEN o ELSE NoCall
    /\ calls' = IF r.called THEN Append(calls, name) ELSE calls

\* summarize.py 378-419
RepoStandup(o) ==
    /\ pc = "standup"
    /\ AggregatorReturns(generate_repo_standup_paragraph(time_window, bullets, team_snips, o),
                         o, "standup")
    /\ pc' = IF generate_repo_standup_paragraph(time_window, bullets, team_snips, o).raises
             THEN "raised" ELSE "standup_returned"
    /\ raised' = IF pc' = "raised" THEN JoinError ELSE raised
    /\ UNCHANGED <<findVars, peerVars, probeVars, historyVars, files, commit_block, cache_path, commit_hash, commit_msg, loaded, mem_cache,
                   strict, relaxed, result, source, again, before, scanVars, sumVars,
                   progressVars,
                   time_window, bullets, team_snips, repo_summaries, scan_mode>>

\* summarize.py 423-468
TeamScrum(o) ==
    /\ pc = "team"
    /\ AggregatorReturns(generate_team_scrum_paragraph(repo_summaries, "2024-05-01", "",
                                                       scan_mode, o),
                         o, "team")
    /\ pc' = "team_returned"
    /\ UNCHANGED <<findVars, peerVars, probeVars, historyVars, files, commit_block, cache_path, commit_hash, commit_msg, loaded, mem_cache,
                   strict, relaxed, result, source, again, before, raised, scanVars, sumVars,
                   progressVars,
                   time_window, bullets, team_snips, repo_summaries, scan_mode>>

NextAggregate ==
    \/ \E o \in ChatOutcomes : RepoStandup(o)
    \/ \E o \in ChatOutcomes : TeamScrum(o)

SpecAggregate == InitAggregate /\ [][NextAggregate]_vars

(***************************************************************************)
(* LLMSummarizer (core/summarizer.py).  summarize_scan_result works on the *)
(* ScanResult it is given, in place: a step of the model service (the call *)
(* of get_ollama_client, each client.chat of classify, each _chat of an    *)
(* aggregator) is one action, together with the code up to the next one.   *)
(***************************************************************************)
\* types.py 17-28: the values of WorkType
WorkTypes ==
    {"feature", "bugfix", "refactor", "docs", "test", "chore", "perf", "build", "ci", "other"}

\* str(scan_mode): ScanMode.__str__ returns the value (types.py 34-43)
StrScanMode(m) == m

\* dict.get(key, default)
Get(d, key, default) == IF key \in DOMAIN d THEN d[key] ELSE default

\* summarizer.py 140-142 (and 111-112): the basic summary of a commit
BasicSummary(c) ==
    [c EXCEPT !.bullet = "- [" \o c.work_type \o "] " \o Backtick \o c.commit_hash
                         \o Backtick \o ": " \o c.message,
              !.team_snippet = RStripDot(Prefix(c.message, SnippetLen))]

\* a summarize_commit that writes the bullet over the commit message
MessageReplaced(c, ok, r) == [BasicSummary(c) EXCEPT !.message = Get(r, "bullet", c.message)]

\* summarizer.py 131-143: the commit after classify returned r (ok) or raised;
\* WorkType(value) raises ValueError for a value outside the enumeration
Summarized(c, ok, r) ==
    IF ok /\ Get(r, "work_type", "other") \in WorkTypes
    THEN [c EXCEPT !.work_type = Get(r, "work_type", "other"),
                   !.bullet = Get(r, "bullet", c.bullet),
                   !.team_snippet = Get(r, "team_snippet", c.team_snippet)]
    ELSE BasicSummary(c)

\* what the first connection to the service may come to: it answers and has the
\* model, it refuses, or config.ollama.enabled is false and it is never tried
Connections == {"ok", "refused", "disabled"}

\* summarizer.py 58-85
is_available(conn) ==
    IF _ollama_available # "None" THEN _ollama_available = "True" ELSE conn = "ok"

\* where the loops of summarize_scan_result and summarize_repository (summarizer.py
\* 260 and 186) go on, with ri repositories done and ci commits of the next one
LoopAt(sr, ri, ci) ==
    IF ri = Len(sr.repositories) THEN "team"
    ELSE IF ci < Len(sr.repositories[ri + 1].commits) THEN "commit"
    ELSE "standup"

\* an object whose bullet is an array and not a string
ListBulletObject(h) ==
    [commit_hash |-> h,
     work_type |-> "docs",
     bullet |-> ListValue("[- Updated the usage notes]"),
     team_snippet |-> "usage notes"]

\* the responses and failures of client.chat used for the classification of a
\* commit inside a summarizer run; the client exists by then
SummarizerStrict(h) ==
    {Resp(<<Obj(GoodObject(h), FALSE, FALSE)>>),
     Resp(<<Prose, Fence, Obj(ForeignObject, TRUE, TRUE), Fence, Prose>>),
     Resp(<<Obj(ListBulletObject(h), FALSE, FALSE)>>),
     Resp(<<Prose>>),
     ChatRaises}
SummarizerRelaxed(h) == {Resp(<<Obj(GoodObject(h), FALSE, FALSE)>>), Resp(<<Prose>>), ChatRaises}
\* ... and of _chat in the aggregators
SummarizerChat ==
    {Resp("Fixed parser, added retries, and updated docs."),
     Resp("I fixed the parser crash and added retry logic to the cache."),
     ChatRaises}

\* a repository of GitRepos
GitRepo(name) == CHOOSE r \in GitRepos : r.name = name

\* scanner.py 341-356: the summaries of the repositories rs
RECURSIVE ScanSummaries(_)
ScanSummaries(rs) ==
    IF rs = <<>> THEN <<>> ELSE scan_repository(Head(rs)) \o ScanSummaries(Tail(rs))

\* the repository lists whose scan is handed to the summarizer
SummarizerScans == {<<>>, <<GitRepo("devdiary")>>, <<GitRepo("logger"), GitRepo("gone")>>}

\* the scan results handed to the summarizer
SummarizerInputs == {ScanResult(ScanSummaries(rs)) : rs \in SummarizerScans}

\* the progress_callback arguments: none, one that records, one that raises
Callbacks == {"none", "records", "raises"}
CallbackError == [type |-> "RuntimeError", text |-> "progress display closed"]

\* the exception e leaves the method as it is
Propagated(e) == e

\* summarizer.py 317-319
SummarizationError(e) ==
    [type |-> "SummarizationError", text |-> "Summarization failed: " \o e.text]

InitSummarize ==
    /\ files \in {[p \in Paths |-> f] : f \in {NoFile, EarlierRun}}
    /\ pc = "idle"
    /\ commit_block = ""
    /\ cache_path = NonePath
    /\ commit_hash = ""
    /\ commit_msg = ""
    /\ loaded = EmptyDict
    /\ mem_cache = EmptyDict
    /\ calls = <<>>
    /\ strict = NoCall
    /\ relaxed = NoCall
    /\ result = EmptyDict
    /\ source = ""
    /\ raised = NoExc
    /\ again = FALSE
    /\ before = EmptyDict
    /\ repos \in SummarizerScans
    /\ idx = Len(repos)
    /\ raw_logs = [i \in 1..Len(repos) |-> get_commits_from_repo(repos[i])]
    /\ summaries = ScanSummaries(repos)
    /\ scan_result = ScanResult(summaries)
    /\ callback \in Callbacks
    /\ events = <<>>
    /\ AggregateIdle
    /\ SummarizeIdle
    /\ NoHistory
    /\ ProbeIdle
    /\ FindIdle
    /\ PeerIdle

\* summarizer.py 260-279 and 281: where the method e goes on with ri repositories
\* done, after calling the callback cb for the next turn of the loop
AfterRepository(sr, ri, e, cb, evs) ==
    LET n == Len(sr.repositories)
    IN  IF e = "repository" THEN [at |-> "returned", events |-> evs, exc |-> NoExc]
        ELSE IF ri = n THEN [at |-> "team", events |-> evs, exc |-> NoExc]
        ELSE [at |-> IF cb = "raises" THEN "raised" ELSE LoopAt(sr, ri, 0),
              events |-> IF cb = "none" THEN evs
                         ELSE Append(evs, ScanProgress(n, ri + 1, sr.repositories[ri + 1].repo_name,
                                                       "summarizing")),
              exc |-> IF cb = "raises" THEN SummarizationError(CallbackError) ELSE NoExc]

\* summarizer.py 168-179 and 221-232: the basic summaries of a repository
BasicRepository(r) ==
    [r EXCEPT !.bullets = [i \in 1..Len(r.commits) |-> BasicSummary(r.commits[i]).bullet],
              !.team_snippets =
                  [i \in 1..Len(r.commits) |-> BasicSummary(r.commits[i]).team_snippet],
              !.standup_summary =
                  "In " \o r.repo_name \o ", made " \o ToString(Len(r.commits)) \o " commits."]

\* the commits of all repositories, in order
RECURSIVE AllCommits(_)
AllCommits(rs) == IF rs = <<>> THEN <<>> ELSE Head(rs).commits \o AllCommits(Tail(rs))

\* types.py 173-185: ScanResult.work_type_distribution
work_type_distribution(sr) == WorkTypeCounts(AllCommits(sr.repositories))

\* types.py 167-171: ScanResult.total_commits
total_commits(sr) == Len(AllCommits(sr.repositories))

\* summarizer.py 249-267: the availability check, then the return of the scan
\* result as it is or the start of the loop
SummarizeScanResult(conn) ==
    /\ at = "idle"
    /\ entry' = "scan_result"
    /\ _ollama_available' = IF is_available(conn) THEN "True" ELSE "False"
    /\ _client' = (_client \/ (_ollama_available = "None" /\ conn = "ok"))
    /\ LET next == AfterRepository(scan_result, 0, entry', callback, events)
       IN  IF is_available(conn)
           THEN at' = next.at /\ events' = next.events /\ raised' = next.exc
           ELSE at' = "returned" /\ UNCHANGED <<events, raised>>
    /\ UNCHANGED <<findVars, peerVars, probeVars, historyVars, pc, classifyVars, scanVars, aggVars, repo_idx, commit_idx, callback>>

\* summarizer.py 234-279: summarize_scan_result called once more, by a caller
\* without callback, on the result it returned; is_available answers from its field
SummarizeScanResultAgain ==
    /\ at = "returned"
    /\ entry = "scan_result"
    /\ callback = "none"
    /\ _ollama_available = "True"
    /\ earlier = <<>>
    /\ scan_result.repositories # <<>>
    /\ earlier' = scan_result.repositories
    /\ repo_idx' = 0
    /\ commit_idx' = 0
    /\ LET next == AfterRepository(scan_result, 0, entry, callback, events)
       IN  at' = next.at /\ events' = next.events /\ raised' = next.exc
    /\ UNCHANGED <<findVars, peerVars, probeVars, classified, runs, pc, classifyVars, scanVars, aggVars,
                   _ollama_available, _client, entry, callback>>

\* summarizer.py 164-184: summarize_repository called by the caller for the first
\* repository of the scan result
SummarizeRepositoryCall(conn) ==
    /\ at = "idle"
    /\ callback = "none"
    /\ scan_result.repositories # <<>>
    /\ entry' = "repository"
    /\ _ollama_available' = IF is_available(conn) THEN "True" ELSE "False"
    /\ _client' = (_client \/ (_ollama_available = "None" /\ conn = "ok"))
    /\ IF is_available(conn)
       THEN at' = LoopAt(scan_result, 0, 0) /\ UNCHANGED scan_result
       ELSE /\ at' = "returned"
            /\ scan_result' = [scan_result EXCEPT !.repositories[1] = BasicRepository(@)]
    /\ UNCHANGED <<findVars, peerVars, probeVars, historyVars, pc, raised, classifyVars, repos, idx, raw_logs, summaries, aggVars,
                   repo_idx, commit_idx, progressVars>>

\* summarizer.py 115-128: summarize_commit of the next commit, up to the first
\* client.chat of classify or to its return from the cache
SummarizeCommit ==
    /\ at = "commit"
    /\ LET c == scan_result.repositories[repo_idx + 1].commits[commit_idx + 1]
       IN  Begin(c.commit_hash \o " " \o c.message, NonePath)
    /\ at' = "classify"
    /\ UNCHANGED <<findVars, peerVars, probeVars, historyVars, scanVars, aggVars, _ollama_available, _client, repo_idx, commit_idx, entry,
                   progressVars>>

\* summarizer.py 131-143 and 186-190: classify is over, the commit is updated
CommitSummarized ==
    /\ at = "classify"
    /\ pc \in {"returned", "raised"}
    /\ scan_result' =
          [scan_result EXCEPT !.repositories[repo_idx + 1].commits[commit_idx + 1] =
              Summarized(@, pc = "returned", result)]
    /\ commit_idx' = commit_idx + 1
    /\ at' = LoopAt(scan_result, repo_idx, commit_idx')
    /\ UNCHANGED <<findVars, peerVars, probeVars, historyVars, pc, raised, classifyVars, repos, idx, raw_logs, summaries, aggVars,
                   _ollama_available, _client, repo_idx, entry, progressVars>>

\* the counts the scanner stored, kept as they are
StaleCounts(r) == r.work_type_counts

\* summarizer.py 199-204: the counts of the repository after its commits are summarized
RecountedCounts(r) == WorkTypeCounts(r.commits)

\* summarizer.py 192-232: the repository after its commits are summarized, _chat
\* doing o in generate_repo_standup_paragraph
SummarizedRepository(r, sr, o) ==
    LET bullets_ == [i \in 1..Len(r.commits) |-> r.commits[i].bullet]
        snips == [i \in 1..Len(r.commits) |-> r.commits[i].team_snippet]
        tw == _time_window_phrase(StrScanMode(sr.scan_mode), sr.since_date, sr.to_date)
        standup == generate_repo_standup_paragraph(tw, bullets_, snips, o)
        counted == [r EXCEPT !.work_type_counts = RecountedCounts(r)]
    IN  IF standup.raises THEN BasicRepository(counted)
        ELSE [counted EXCEPT !.bullets = bullets_,
                             !.team_snippets = snips,
                             !.standup_summary = standup.paragraph]

\* summarizer.py 192-232 and 260-279: the lists, the counts and the standup
\* paragraph of the repository, then the callback of the next turn
SummarizeRepository(o) ==
    /\ at = "standup"
    /\ scan_result' =
          [scan_result EXCEPT !.repositories[repo_idx + 1] =
              SummarizedRepository(@, scan_result, o)]
    /\ repo_idx' = repo_idx + 1
    /\ commit_idx' = 0
    /\ LET next == AfterRepository(scan_result, repo_idx', entry, callback, events)
       IN  at' = next.at /\ events' = next.events /\ raised' = next.exc
    /\ UNCHANGED <<findVars, peerVars, probeVars, historyVars, pc, classifyVars, repos, idx, raw_logs, summaries, aggVars,
                   _ollama_available, _client, entry, callback>>

\* summarizer.py 282-319: the team summary, _chat doing o, the last callback and
\* the return
SummarizeTeam(o) ==
    /\ at = "team"
    /\ LET rs == scan_result.repositories
           repo_summaries_ == [i \in 1..Len(rs) |->
                                  [repo_name |-> rs[i].repo_name,
                                   standup_summary |-> rs[i].standup_summary]]
       IN  scan_result' =
              [scan_result EXCEPT !.team_summary =
                  generate_team_scrum_paragraph(repo_summaries_, scan_result.since_date,
                                                scan_result.to_date,
                                                StrScanMode(scan_result.scan_mode), o).paragraph]
    /\ events' = IF callback = "none" THEN events
                 ELSE Append(events, ScanProgress(Len(scan_result.repositories),
                                                  Len(scan_result.repositories), "", "complete"))
    /\ at' = IF callback = "raises" THEN "raised" ELSE "returned"
    /\ raised' = IF callback = "raises" THEN SummarizationError(CallbackError) ELSE NoExc
    /\ UNCHANGED <<findVars, peerVars, probeVars, historyVars, pc, classifyVars, repos, idx, raw_logs, summaries, aggVars,
                   _ollama_available, _client, repo_idx, commit_idx, entry, callback>>

NextSummarize ==
    \/ \E conn \in Connections : SummarizeScanResult(conn)
    \/ \E conn \in Connections : SummarizeRepositoryCall(conn)
    \/ SummarizeCommit
    \/ \E o \in SummarizerStrict(commit_hash) :
          at = "classify" /\ StrictCall(o) /\ UNCHANGED pipelineVars
    \/ \E o \in SummarizerRelaxed(commit_hash) :
          at = "classify" /\ RelaxedCall(o) /\ UNCHANGED pipelineVars
    \/ CommitSummarized
    \/ \E o \in SummarizerChat : SummarizeRepository(o)
    \/ \E o \in SummarizerChat : SummarizeTeam(o)

SpecSummarize == InitSummarize /\ [][NextSummarize]_vars

\* the summarizer with a second call of summarize_scan_result on the same result
NextSummarizeTwice == NextSummarize \/ SummarizeScanResultAgain

SpecSummarizeTwice == InitSummarize /\ [][NextSummarizeTwice]_vars

(***************************************************************************)
(* Runs of classify over the commits of a scan, with process termination   *)
(* (SpecResume).  A run classifies the commits in order, as summarize_     *)
(* commit does, with cache_path=None; the process may be killed at any     *)
(* point, also inside save_cache, and a new process starts over.           *)
(***************************************************************************)
\* the commit blocks of the scan, as summarizer.py 119 builds them
ResumeCommits ==
    <<"a1b2c3d Fix crash in the commit parser", "b2c3d4e Add usage notes to README.">>

\* the most processes started
MaxRuns == 3

\* what client.chat does in these runs
ResumeStrict(h) == {Resp(<<Obj(GoodObject(h), FALSE, FALSE)>>), Resp(<<Prose>>), ChatRaises}
ResumeRelaxed(h) == {Resp(<<Prose>>), ChatRaises}

InitResume ==
    /\ pc = "idle"
    /\ raised = NoExc
    /\ ClassifyIdle
    /\ PipelineIdle

\* the bookkeeping of a step of classify: the position in the list and the history
ResumeStep ==
    /\ commit_idx' = IF pc' = "returned" THEN commit_idx + 1 ELSE commit_idx
    /\ classified' = IF pc' = "returned" /\ source' # "except"
                     THEN classified \cup {commit_block'} ELSE classified
    /\ UNCHANGED <<scanVars, aggVars, _ollama_available, _client, at, repo_idx, entry,
                   progressVars, runs, earlier, probeVars, findVars, peerVars>>

\* summarizer.py 186-190 and 119-128: classify is called for the next commit
ResumeBegin ==
    /\ commit_idx < Len(ResumeCommits)
    /\ Begin(ResumeCommits[commit_idx + 1], NonePath)
    /\ ResumeStep

\* write_text (cache.py 19) truncates the file and then writes: a process killed
\* in between leaves a file that is not JSON text
TornFile == GarbageFile

\* the process is killed; torn: inside a save_cache call.  A new process starts.
Terminate(torn) ==
    /\ runs < MaxRuns
    /\ pc # "idle"
    /\ torn => ~(pc = "returned" /\ commit_idx = Len(ResumeCommits))
    /\ runs' = runs + 1
    /\ files' = IF torn THEN [files EXCEPT ![DEFAULT_CACHE_PATH] = TornFile] ELSE files
    /\ pc' = "idle"
    /\ commit_block' = ""
    /\ cache_path' = NonePath
    /\ commit_hash' = ""
    /\ commit_msg' = ""
    /\ loaded' = EmptyDict
    /\ mem_cache' = EmptyDict
    /\ calls' = <<>>
    /\ strict' = NoCall
    /\ relaxed' = NoCall
    /\ result' = EmptyDict
    /\ source' = ""
    /\ again' = FALSE
    /\ before' = EmptyDict
    /\ commit_idx' = 0
    /\ UNCHANGED <<raised, classified, earlier, scanVars, aggVars, _ollama_available, _client, at,
                   repo_idx, entry, progressVars, probeVars,
                   findVars, peerVars>>

NextResume ==
    \/ ResumeBegin
    \/ \E o \in ResumeStrict(commit_hash) : StrictCall(o) /\ ResumeStep
    \/ \E o \in ResumeRelaxed(commit_hash) : RelaxedCall(o) /\ ResumeStep
    \/ \E torn \in BOOLEAN : Terminate(torn)

SpecResume == InitResume /\ [][NextResume]_vars

(***************************************************************************)
(* classify called for the commits of repositories whose abbreviated       *)
(* hashes (git log %h) are shorter than six characters, next to a commit   *)
(* with a hash of seven (SpecKeys).  The blocks are built as summarizer.py *)
(* 119 builds them, cache_path is None.                                    *)
(***************************************************************************)
KeyBlocks ==
    {"a1b2c3d Fix crash in the commit parser", "abc12 Add usage notes to README.",
     "def34 Fix typo"}

\* the hash of the header: the first token of the first line
HeaderHash(block) ==
    IF SplitOnce(FirstLine(block)) = <<>> THEN "" ELSE SplitOnce(FirstLine(block))[1]

\* summarize.py 260: the key classify uses for a block
CacheKey(block) ==
    IF _extract_commit_hash(block) = "" THEN NoHash ELSE _extract_commit_hash(block)

InitKeys ==
    /\ pc = "idle"
    /\ raised = NoExc
    /\ ClassifyIdle
    /\ PipelineIdle

\* the history of a step of classify: the blocks it has put a classification in the cache for
KeysStep ==
    /\ classified' = IF pc' = "returned" /\ source' # "cache"
                     THEN classified \cup {commit_block'} ELSE classified
    /\ UNCHANGED <<scanVars, aggVars, sumVars, progressVars, runs, earlier, probeVars, findVars,
                   peerVars>>

NextKeys ==
    \/ \E b \in KeyBlocks : Begin(b, NonePath) /\ KeysStep
    \/ \E o \in ResumeStrict(commit_hash) : StrictCall(o) /\ KeysStep
    \/ \E o \in ResumeRelaxed(commit_hash) : RelaxedCall(o) /\ KeysStep

SpecKeys == InitKeys /\ [][NextKeys]_vars

(***************************************************************************)
(* Two invocations of classify for different commits on the default cache  *)
(* file, in two threads or two processes (SpecInterleave).  The variables  *)
(* of classify are the locals of the invocation that runs; peer holds the  *)
(* locals of the other one.  A step is one access to the cache file with   *)
(* the local computation around it.                                        *)
(***************************************************************************)
\* the locals of the invocation that runs
Locals ==
    [pc |-> pc, commit_block |-> commit_block, commit_hash |-> commit_hash,
     commit_msg |-> commit_msg, loaded |-> loaded, mem_cache |-> mem_cache, calls |-> calls,
     strict |-> strict, relaxed |-> relaxed, result |-> result, source |-> source]

\* the locals of an invocation called with block b that has not run yet
Called(b) ==
    [pc |-> "idle", commit_block |-> b, commit_hash |-> "", commit_msg |-> "",
     loaded |-> EmptyDict, mem_cache |-> EmptyDict, calls |-> <<>>, strict |-> NoCall,
     relaxed |-> NoCall, result |-> EmptyDict, source |-> ""]

InitInterleave ==
    /\ files \in [Paths -> {NoFile, EarlierRun}]
    /\ pc = "idle"
    /\ raised = NoExc
    /\ commit_block = ResumeCommits[1]
    /\ cache_path = NonePath
    /\ commit_hash = ""
    /\ commit_msg = ""
    /\ loaded = EmptyDict
    /\ mem_cache = EmptyDict
    /\ calls = <<>>
    /\ strict = NoCall
    /\ relaxed = NoCall
    /\ result = EmptyDict
    /\ source = ""
    /\ again = FALSE
    /\ before = EmptyDict
    /\ peer = Called(ResumeCommits[2])
    /\ ScanIdle /\ AggregateIdle /\ SummarizeIdle /\ ProgressIdle /\ NoHistory
    /\ ProbeIdle
    /\ FindIdle

\* summarize.py 260-265: the hash, the message and load_cache
ClassifyLoad ==
    /\ pc = "idle"
    /\ commit_hash' = CacheKey(commit_block)
    /\ commit_msg' = _extract_commit_message(commit_block)
    /\ loaded' = load_cache(files[LoadPath(cache_path)])
    /\ pc' = "purging"
    /\ UNCHANGED <<files, commit_block, cache_path, mem_cache, calls, strict, relaxed, result,
                   source, again, before, raised>>

\* summarize.py 267-273: purge_bad_entries, save_cache and the lookup
ClassifyPurge ==
    /\ pc = "purging"
    /\ IF PurgeRaises(loaded)
       THEN /\ pc' = "raised"
            /\ raised' = PurgeError
            /\ UNCHANGED <<files, mem_cache, result, source>>
       ELSE /\ mem_cache' = purge_bad_entries(loaded)
            /\ files' = [files EXCEPT ![SavePath(cache_path)] = save_cache(mem_cache')]
            /\ IF get_cached(commit_hash, mem_cache').truthy
               THEN pc' = "returned" /\ result' = get_cached(commit_hash, mem_cache').d
                        /\ source' = "cache"
               ELSE pc' = "strict" /\ UNCHANGED <<result, source>>
            /\ UNCHANGED raised
    /\ UNCHANGED <<commit_block, cache_path, commit_hash, commit_msg, loaded, calls, strict,
                   relaxed, again, before>>

\* the scheduler lets the other invocation run
Switch ==
    /\ peer.pc # "returned"
    /\ peer' = Locals
    /\ pc' = peer.pc
    /\ commit_block' = peer.commit_block
    /\ commit_hash' = peer.commit_hash
    /\ commit_msg' = peer.commit_msg
    /\ loaded' = peer.loaded
    /\ mem_cache' = peer.mem_cache
    /\ calls' = peer.calls
    /\ strict' = peer.strict
    /\ relaxed' = peer.relaxed
    /\ result' = peer.result
    /\ source' = peer.source
    /\ UNCHANGED <<files, cache_path, again, before, raised>>

\* what is left alone by a step of one invocation
InterleaveStep ==
    UNCHANGED <<scanVars, aggVars, sumVars, progressVars, historyVars, probeVars, findVars>>

NextInterleave ==
    \/ ClassifyLoad /\ InterleaveStep /\ UNCHANGED peer
    \/ ClassifyPurge /\ InterleaveStep /\ UNCHANGED peer
    \/ \E o \in ResumeStrict(commit_hash) : StrictCall(o) /\ InterleaveStep /\ UNCHANGED peer
    \/ \E o \in ResumeRelaxed(commit_hash) : RelaxedCall(o) /\ InterleaveStep /\ UNCHANGED peer
    \/ Switch /\ InterleaveStep

SpecInterleave == InitInterleave /\ [][NextInterleave]_vars

(***************************************************************************)
(* LLMSummarizer.test_connection (summarizer.py, 321-371).  The service    *)
(* lists at most MaxModels models.                                         *)
(***************************************************************************)
MaxModels == 3

\* a str or None
NoneValue == [k |-> "none", s |-> ""]
StrValue(s) == [k |-> "str", s |-> s]

ModelNames == {"llama3:latest", "mistral:7b"}

\* an entry of ListResponse.models of the client library: an object with the
\* attribute model
ModelObjects == {[model |-> n] : n \in ModelNames}
\* an entry of the "models" list of a dict response: a dict with the key name,
\* with the key model, with both or with neither
ModelDicts ==
    {[name |-> n] : n \in ModelNames} \cup {[model |-> n] : n \in ModelNames}
        \cup {[name |-> "llama3:latest", model |-> "llama3"], EmptyDict}

ListError == [type |-> "ConnectionError", text |-> "Failed to connect to Ollama"]

\* what client.list() does: it raises, it returns an object with the attribute
\* models, a dict with the key "models", or a dict without it
ListRaises == [k |-> "raise", text |-> <<>>, exc |-> ListError]
AttrResponse(models) == [k |-> "attr", text |-> models, exc |-> NoExc]
DictResponse(models) == [k |-> "dict", text |-> models, exc |-> NoExc]
BareResponse == [k |-> "bare", text |-> <<>>, exc |-> NoExc]

Listings ==
    {ListRaises, BareResponse}
        \cup {AttrResponse(m) : m \in UNION {[1..n -> ModelObjects] : n \in 0..MaxModels}}
        \cup {DictResponse(m) : m \in UNION {[1..n -> ModelDicts] : n \in 0..MaxModels}}

\* summarizer.py 349-355: available_models
AvailableModels(listing) ==
    IF listing.k = "attr" THEN [i \in 1..Len(listing.text) |-> listing.text[i].model]
    ELSE IF listing.k = "dict"
    THEN [i \in 1..Len(listing.text) |->
             Get(listing.text[i], "name", Get(listing.text[i], "model", ""))]
    ELSE <<>>

\* an except clause for RuntimeError only
CatchesRuntimeError(exc) == exc.type = "RuntimeError"

\* summarizer.py 365: except Exception
ConnectionCatches(exc) == TRUE

\* summarizer.py 333-339
DisabledStatus ==
    [available |-> FALSE, models |-> <<>>,
     error |-> StrValue("LLM summarization disabled in configuration")]

\* summarizer.py 359-363
AvailableStatus(models) == [available |-> TRUE, models |-> models, error |-> NoneValue]

\* summarizer.py 367-371
FailedStatus(exc) == [available |-> FALSE, models |-> <<>>, error |-> StrValue(exc.text)]

\* the exception the try body of lines 341-363 ends with, NoExc when it returns
ConnectionException(conn, listing) ==
    IF conn = "refused" THEN ClientError
    ELSE IF listing.k = "raise" THEN listing.exc
    ELSE NoExc

InitConnection ==
    /\ _client \in BOOLEAN
    /\ _ollama_available = "None"
    /\ at = "idle"
    /\ repo_idx = 0
    /\ commit_idx = 0
    /\ entry = ""
    /\ pc = "idle"
    /\ raised = NoExc
    /\ ClassifyIdle
    /\ ScanIdle
    /\ AggregateIdle
    /\ ProgressIdle
    /\ NoHistory
    /\ ProbeIdle
    /\ FindIdle
    /\ PeerIdle

\* summarizer.py 321-371: one call of test_connection.  conn is what the
\* configuration and get_ollama_client come to (a validated client of the module
\* is returned without a connection), listing what client.list() does then.
TestConnection(conn, listing) ==
    /\ at = "idle"
    /\ conn = "refused" => ~_client
    /\ (conn = "ok") = (listing # NoCall)
    /\ entry' = "test_connection"
    /\ probe' = [conn |-> conn, listing |-> listing]
    /\ _client' = (_client \/ conn = "ok")
    /\ LET exc == ConnectionException(conn, listing)
       IN  IF conn = "disabled"
           THEN at' = "returned" /\ result' = DisabledStatus /\ UNCHANGED raised
           ELSE IF exc = NoExc
           THEN /\ at' = "returned"
                /\ result' = AvailableStatus(AvailableModels(listing))
                /\ UNCHANGED raised
           ELSE IF ConnectionCatches(exc)
           THEN at' = "returned" /\ result' = FailedStatus(exc) /\ UNCHANGED raised
           ELSE at' = "raised" /\ raised' = exc /\ UNCHANGED result
    /\ UNCHANGED <<pc, files, commit_block, cache_path, commit_hash, commit_msg, loaded,
                   mem_cache, calls, strict, relaxed, source, again, before>>
    /\ UNCHANGED <<scanVars, aggVars, _ollama_available, repo_idx, commit_idx, progressVars,
                   historyVars, findVars, peerVars>>

NextConnection == \E conn \in Connections, listing \in Listings \cup {NoCall} : TestConnection(conn, listing)

SpecConnection == InitConnection /\ [][NextConnection]_vars

(***************************************************************************)
(* The availability check of the summarizers of one process and the client *)
(* of the module (summarizer.py 45-85, summarize.py 20-104)                *)
(* (SpecAvailable).  calls lists what the service did each time it was     *)
(* contacted.                                                              *)
(***************************************************************************)
\* the most contacts with the service
MaxContacts == 3

\* what the service does when get_ollama_client contacts it: it lists llama3,
\* it refuses the connection, or it lists no llama3 model
Services == {"ok", "refused", "no_model"}

\* an instance that keeps no result of its check
Forgotten == "None"

\* summarizer.py 66-67: the result the instance has kept, "None" before the first check
CachedResult == _ollama_available

\* summarize.py 39-104: get_ollama_client when the service would do service
get_ollama_client(service) ==
    IF _client
    THEN [ok |-> TRUE, client |-> TRUE, calls |-> calls]
    ELSE [ok |-> service = "ok", client |-> service = "ok", calls |-> Append(calls, service)]

InitAvailable ==
    /\ SummarizeIdle
    /\ pc = "idle"
    /\ raised = NoExc
    /\ ClassifyIdle
    /\ ScanIdle
    /\ AggregateIdle
    /\ ProgressIdle
    /\ NoHistory
    /\ ProbeIdle
    /\ FindIdle
    /\ PeerIdle

\* what a call on the summarizer or the module leaves alone
AvailableStep ==
    UNCHANGED <<pc, files, commit_block, cache_path, commit_hash, commit_msg, loaded, mem_cache,
                strict, relaxed, source, again, before, scanVars, aggVars, repo_idx,
                commit_idx, progressVars, historyVars, probeVars, findVars, peerVars>>

\* summarizer.py 58-85: one call of is_available, config.ollama.enabled being enabled
IsAvailable(enabled, service) ==
    /\ CachedResult = "None" /\ enabled /\ ~_client => Len(calls) < MaxContacts
    /\ entry' = "is_available"
    /\ at' = "returned"
    /\ IF CachedResult # "None"
       THEN result' = CachedResult /\ UNCHANGED <<_ollama_available, _client, calls>>
       ELSE IF ~enabled
       THEN result' = "False" /\ _ollama_available' = "False" /\ UNCHANGED <<_client, calls>>
       ELSE LET got == get_ollama_client(service)
            IN  /\ calls' = got.calls
                /\ _client' = got.client
                /\ _ollama_available' = IF got.ok THEN "True" ELSE "False"
                /\ result' = _ollama_available'
    /\ UNCHANGED raised
    /\ AvailableStep

\* summarize.py 24-104: one call of get_ollama_client, as classify and the
\* aggregators make it
GetOllamaClient(service) ==
    /\ ~_client => Len(calls) < MaxContacts
    /\ entry' = "get_ollama_client"
    /\ LET got == get_ollama_client(service)
       IN  /\ calls' = got.calls
           /\ _client' = got.client
           /\ at' = IF got.ok THEN "returned" ELSE "raised"
           /\ raised' = IF got.ok THEN NoExc ELSE ClientError
           /\ result' = IF got.ok THEN "client" ELSE ""
    /\ UNCHANGED _ollama_available
    /\ AvailableStep

\* summarizer.py 45-56: a new LLMSummarizer in the same process
NewSummarizer ==
    /\ entry' = "init"
    /\ at' = "returned"
    /\ _ollama_available' = "None"
    /\ result' = ""
    /\ UNCHANGED <<_client, calls, raised>>
    /\ AvailableStep

NextAvailable ==
    \/ \E enabled \in BOOLEAN, service \in Services : IsAvailable(enabled, service)
    \/ \E service \in Services : GetOllamaClient(service)
    \/ NewSummarizer

SpecAvailable == InitAvailable /\ [][NextAvailable]_vars

(***************************************************************************)
(* The heuristic of the scanner and the heuristic of the classifier on the *)
(* same commit (scanner.py 233-241, summarizer.py 116, summarize.py        *)
(* 260-261 and 339).  The header is a hash and one of Messages.            *)
(***************************************************************************)
AgreeHashes == {"a1b2c3d", "c1add57"}

\* scanner.py 233-238: message = parts[1] if len(parts) > 1 else ""
ScannerMessage(header) ==
    IF Len(SplitOnce(header)) > 1 THEN SplitOnce(header)[2] ELSE ""

InitAgree ==
    /\ commit_hash \in AgreeHashes
    /\ commit_msg \in Messages
    /\ commit_block = commit_hash \o " " \o commit_msg
    /\ files = [p \in Paths |-> NoFile]
    /\ pc = "idle"
    /\ cache_path = NonePath
    /\ loaded = EmptyDict
    /\ mem_cache = EmptyDict
    /\ calls = <<>>
    /\ strict = NoCall
    /\ relaxed = NoCall
    /\ result = EmptyDict
    /\ source = ""
    /\ raised = NoExc
    /\ again = FALSE
    /\ before = EmptyDict
    /\ PipelineIdle

\* scanner.py 233-241: the work type _parse_commit_block gives the commit of the
\* header; summarizer.py 116 and summarize.py 260-261, 339: the work type of the
\* classifier's heuristic for the block summarize_commit builds from the record
\* (direct: for the scanner's message itself)
BothHeuristics ==
    /\ pc = "idle"
    /\ pc' = "returned"
    /\ LET message == ScannerMessage(commit_block)
           block == SplitOnce(commit_block)[1] \o " " \o message
       IN  result' = [scanner |-> Scanner_heuristic_work_type(message),
                      direct |-> _heuristic_work_type(message),
                      classifier |-> _heuristic_work_type(_extract_commit_message(block))]
    /\ source' = "heuristic"
    /\ UNCHANGED <<files, commit_block, cache_path, commit_hash, commit_msg, loaded, mem_cache,
                   calls, strict, relaxed, raised, again, before>>
    /\ UNCHANGED pipelineVars

NextAgree == BothHeuristics

SpecAgree == InitAgree /\ [][NextAgree]_vars

(***************************************************************************)
(* _try_parse_json on its own (summarize.py, 161-200): the response text   *)
(* is any sequence of at most MaxSpans spans.                              *)
(***************************************************************************)
MaxSpans == 3

\* the objects a response writes: the one asked for and another one
ParseObjects == {GoodObject("a1b2c3d"), ForeignObject}

Spans ==
    {Prose, Fence, Junk, Val(PyOther("list", TRUE))}
        \cup {Obj(d, curly, tcomma) : d \in ParseObjects, curly \in BOOLEAN, tcomma \in BOOLEAN}

ParseTexts == UNION {[1..n -> Spans] : n \in 0..MaxSpans}

InitParse ==
    /\ strict \in {Resp(t) : t \in ParseTexts}
    /\ pc = "idle"
    /\ raised = NoExc
    /\ files = [p \in Paths |-> NoFile]
    /\ commit_block = ""
    /\ cache_path = NonePath
    /\ commit_hash = ""
    /\ commit_msg = ""
    /\ loaded = EmptyDict
    /\ mem_cache = EmptyDict
    /\ calls = <<>>
    /\ relaxed = NoCall
    /\ result = EmptyDict
    /\ source = ""
    /\ again = FALSE
    /\ before = EmptyDict
    /\ PipelineIdle

\* summarize.py 181-200: one call of _try_parse_json on the text of the response
TryParseJson ==
    /\ pc = "idle"
    /\ pc' = "parsed"
    /\ result' = [value |-> _try_parse_json(strict.text)]
    /\ UNCHANGED <<files, commit_block, cache_path, commit_hash, commit_msg, loaded, mem_cache,
                   calls, strict, relaxed, source, raised, again, before>>
    /\ UNCHANGED pipelineVars

NextParse == TryParseJson

SpecParse == InitParse /\ [][NextParse]_vars

(***************************************************************************)
(* Properties of classify_and_summarize_commit (Spec).                     *)
(***************************************************************************)
\* what _try_parse_json makes of the response of the call o
ParseOf(o) == _try_parse_json(o.text)
\* the call o got a response whose text yields a JSON object
YieldsObject(o) == o.k = "resp" /\ ParseOf(o).k = "dict"
\* ... a JSON object with at least one member
YieldsNonEmptyObject(o) == YieldsObject(o) /\ ParseOf(o).d # EmptyDict
\* the invocation has returned an object it did not take from the cache
ReturnedFresh == pc = "returned" /\ source \in {"model", "heuristic", "except"}
\* the cache file the invocation loaded, as the next load_cache reads it
FileLoaded == load_cache(files[LoadPath(cache_path)])
\* the exception a model client call of the invocation raised
ClientRaised == IF relaxed.k = "raise" THEN relaxed.exc ELSE strict.exc

\* C1: a second call with the same block and cache_path, started right after
\* the first returned, returns the first result from the cache and makes no
\* model call.
C1_ShortCircuit ==
    again => pc = "returned" /\ source = "cache" /\ result = before /\ calls = <<>>

\* a step of an invocation past the cache check brings it closer to its
\* return, and what it returns has the four classification fields
TowardsReturn ==
    /\ pc = "strict" => pc' \in {"relaxed", "returned"}
    /\ pc = "relaxed" => pc' = "returned"
    /\ pc' = "returned" => ObjectFields \subseteq DOMAIN result'

\* C2: the invocation never raises and is never stuck: past the cache check
\* it can take its next step, every step it takes, whatever the model client
\* does (a response of any kind, an exception), leads from the strict call to
\* the relaxed call or to the return and from the relaxed call to the return,
\* and it returns an object with the four classification fields.
C2_AlwaysClassified ==
    /\ [](pc # "raised")
    /\ [](pc = "strict" => ENABLED (\E o \in StrictOutcomes(commit_hash) : StrictCall(o)))
    /\ [](pc = "relaxed" => ENABLED (\E o \in RelaxedOutcomes(commit_hash) : RelaxedCall(o)))
    /\ [][TowardsReturn]_vars

\* C2: a JSON response that is no object was caught and a fallback returned.
C2_Witness ==
    /\ pc = "returned"
    /\ source = "except"
    /\ strict = Resp(<<Val(PyOther("list", TRUE))>>)
    /\ ObjectFields \subseteq DOMAIN result

\* the model calls come in the order strict, relaxed, at most one of each,
\* and none on a cache hit
CallOrder ==
    /\ calls \in {<<>>, <<"strict">>, <<"strict", "relaxed">>}
    /\ source = "cache" => calls = <<>>

C4_MalformedToHeuristic ==
    (/\ pc = "returned"
     /\ strict.k = "resp" /\ ~YieldsObject(strict)
     /\ relaxed.k # "raise" /\ ~YieldsObject(relaxed))
    => /\ source = "heuristic"
       /\ result = HeuristicData
       /\ ~IsBadEntry(result)
       /\ \A h \in DOMAIN mem_cache : ~IsBadEntry(mem_cache[h])

\* C5: the commit_hash of the object returned and cached is the hash taken
\* from the header of the commit block.
C5_HashFromHeader ==
    ReturnedFresh =>
        /\ result["commit_hash"] = commit_hash
        /\ mem_cache[commit_hash]["commit_hash"] = commit_hash

\* C6: the object returned on a cache miss from a model response or from the
\* heuristic has the four fields, none of them empty.
C6_FieldsNonEmpty ==
    (pc = "returned" /\ source \in {"model", "heuristic"}) =>
        \A f \in ObjectFields : f \in DOMAIN result /\ result[f] # ""

\* C7: when the invocation returns an object computed on a cache miss, the
\* cache file it loaded maps the hash to that object.
C7_WrittenBeforeReturn ==
    ReturnedFresh => get_cached(commit_hash, FileLoaded) = PyDict(result)

\* C8: when a model client call raised, the invocation returns an object with
\* the heuristic work type and the exception text in its bullet, and the cache
\* and the cache file it uses hold that object under the hash.
C8_HardFailure ==
    (/\ pc \in {"returned", "raised"}
     /\ (strict.k \in {"raise", "no_client"} \/ relaxed.k = "raise"))
    => /\ pc = "returned"
       /\ result["work_type"] = _heuristic_work_type(commit_msg)
       /\ Contains(ClientRaised.text, result["bullet"])
       /\ get_cached(commit_hash, mem_cache) = PyDict(result)
       /\ get_cached(commit_hash, FileLoaded) = PyDict(result)

(***************************************************************************)
(* Properties of _heuristic_work_type (SpecHeuristic).                     *)
(***************************************************************************)
WorkTypeOrder ==
    <<"bugfix", "feature", "refactor", "docs", "test", "perf", "build", "ci", "chore">>

KeywordsOf ==
    [bugfix |-> {"bug", "fix", "hotfix", "patch"},
     feature |-> {"feat", "feature", "add", "implement"},
     refactor |-> {"refactor", "cleanup", "restructure"},
     docs |-> {"doc", "readme", "changelog"},
     test |-> {"test", "spec", "unittest"},
     perf |-> {"perf", "optimiz"},
     build |-> {"build", "packag"},
     ci |-> {"ci", "pipeline", "workflow"},
     chore |-> {"chore", "deps", "dependency", "bump"}]

\* the first category of the order with a keyword in msg_l, "other" if none has one
FirstMatch(msg_l) ==
    LET hits == {i \in 1..Len(WorkTypeOrder) :
                    \E k \in KeywordsOf[WorkTypeOrder[i]] : Contains(k, msg_l)}
    IN  IF hits = {} THEN "other" ELSE WorkTypeOrder[First(hits, 0)]

\* C9: the heuristic work type is the first category, in the fixed order, with
\* a keyword in the lower-cased message, "other" if there is none; a message
\* with "fix" in it is a bugfix.
C9_OrderedKeywords ==
    (pc = "returned" /\ source = "heuristic" /\ DOMAIN result = {"work_type"}) =>
        /\ result["work_type"] = FirstMatch(Lower(commit_msg))
        /\ Contains("fix", Lower(commit_msg)) => result["work_type"] = "bugfix"

\* C9: a message with "add" before "Fix" was classified as a bugfix.
C9_Witness ==
    /\ pc = "returned"
    /\ commit_msg = "addFix"
    /\ result = [work_type |-> "bugfix"]

(***************************************************************************)
(* Properties of save_cache and load_cache (SpecCache).                    *)
(***************************************************************************)
\* C10: load_cache after save_cache on the same path returns the mapping saved.
C10_RoundTrip == pc = "loaded" => loaded = mem_cache

\* C10: a mapping with a quote and a backslash in a string was saved and loaded.
C10_Witness ==
    /\ pc = "loaded"
    /\ "a1b2c3d" \in DOMAIN mem_cache
    /\ mem_cache["a1b2c3d"]["team_snippet"] = Quote \o Backslash
    /\ "a1b2c3d" \in DOMAIN loaded

(***************************************************************************)
(* Properties of the cache load of classify (SpecLoad).                    *)
(***************************************************************************)
\* C11: load_cache yields a mapping, the empty one unless the file holds a
\* mapping of hashes to objects, and the purge and the lookup that follow
\* do not raise.
C11_LoadUsable ==
    /\ pc # "raised"
    /\ pc \in {"loaded", "purged", "returned", "strict"} =>
            /\ loaded.k = "dict"
            /\ ~IsMappingFile(files[LoadPath(cache_path)]) /\ pc = "loaded" =>
                    loaded.d = EmptyDict

(***************************************************************************)
(* Properties of purge_bad_entries (SpecPurge).                            *)
(***************************************************************************)
\* C12: purging a purged mapping returns it unchanged.
C12_PurgeIdempotent == pc = "purged_twice" => result = before

\* C12: a mapping with two failure entries and another entry was purged twice.
C12_Witness ==
    /\ pc = "purged_twice"
    /\ Cardinality({h \in DOMAIN loaded : IsBadEntry(loaded[h])}) = 2
    /\ DOMAIN result # {}
    /\ DOMAIN result # DOMAIN loaded

(***************************************************************************)
(* Properties of the extractor and the scanner (SpecScan).                 *)
(***************************************************************************)
\* the repository of the scan with the given name
RepoNamed(name) == repos[CHOOSE i \in 1..Len(repos) : repos[i].name = name]

\* the commit records of the summaries built so far, each with its repository
Records ==
    UNION {{<<RepoNamed(summaries[i].repo_name), summaries[i].commits[n]>> :
                n \in 1..Len(summaries[i].commits)} : i \in 1..Len(summaries)}

\* C13: a repository whose log query exits non-zero or raises yields no
\* commits and gets no RepositorySummary, like a repository without commits.
C13_FailureIsNoActivity ==
    \A i \in 1..idx :
        repos[i].log.k # "ok" =>
            /\ raw_logs[i] = <<>>
            /\ \A j \in 1..Len(summaries) : summaries[j].repo_name # repos[i].name

\* a file line of the commit is not excluded
Survives(c) == \E f \in 1..Len(c.files) : ~should_exclude(c.files[f])

\* C14: a commit is in the extractor's output exactly if one of its file
\* lines survives the exclusion filter; a commit without file lines, or
\* whose file lines all contain an exclusion substring, is neither in the
\* extractor's output nor among the commit records of the scan.
C14_KeptIffFileSurvives ==
    \A i \in 1..idx :
        repos[i].log.k = "ok" =>
            \A n \in 1..Len(repos[i].log.out) :
                LET c == repos[i].log.out[n]
                    kept == \E b \in 1..Len(raw_logs[i]) : Head(raw_logs[i][b]) = Header(c)
                    recorded == \E rec \in Records :
                                    rec[1] = repos[i] /\ rec[2].commit_hash = c.hash
                IN  /\ kept <=> Survives(c)
                    /\ recorded => kept
                    /\ (\A f \in 1..Len(c.files) : AnyIn(EXCLUDED_PATTERNS, c.files[f]))
                            => ~kept /\ ~recorded

\* C14: a repository with a commit whose files are all excluded, next to
\* commits with surviving files, was scanned.
C14_Witness ==
    \E i \in 1..idx :
        /\ repos[i].name = "devdiary"
        /\ Len(repos[i].log.out) = 3
        /\ Len(raw_logs[i]) = 2
        /\ \E j \in 1..Len(summaries) :
                summaries[j].repo_name = "devdiary" /\ Len(summaries[j].commits) = 2

\* the integer of a clause of the stat line of commit c, 0 without the clause
StatClause(c, unit, tail) == ParseInt(SearchCount(c.stat.out, unit, tail))

\* C15: a commit record has zero counts if the statistics query failed, and
\* otherwise the integers of the clauses of the stat line, 0 for a clause
\* the line does not have.
C15_BestEffortStats ==
    \A rec \in Records :
        LET c == Shown(rec[1], rec[2].commit_hash)
        IN  IF c.stat.k # "ok"
            THEN rec[2].files_changed = 0 /\ rec[2].insertions = 0 /\ rec[2].deletions = 0
            ELSE /\ rec[2].files_changed = StatClause(c, "file", " changed")
                 /\ rec[2].insertions = StatClause(c, "insertion", "(+)")
                 /\ rec[2].deletions = StatClause(c, "deletion", "(-)")

\* the log query of the repository shows a commit with a surviving file line
HasActivity(repo) ==
    repo.log.k = "ok" /\ \E n \in 1..Len(repo.log.out) : Survives(repo.log.out[n])

\* C20: the repositories of the ScanResult are the scanned repositories
\* with at least one commit in the window, in input order, each once and
\* each with at least one commit record.
C20_ActiveReposInOrder ==
    pc = "scanned" =>
        LET active == SelectSeq(repos, HasActivity)
            got == scan_result.repositories
        IN  /\ Len(got) = Len(active)
            /\ \A i \in 1..Len(got) :
                    got[i].repo_name = active[i].name /\ Len(got[i].commits) >= 1
            /\ \A i, j \in 1..Len(got) : i # j => got[i].repo_name # got[j].repo_name

(***************************************************************************)
(* Properties of the aggregators (SpecAggregate).                          *)
(***************************************************************************)
\* C16: for an empty bullet list generate_repo_standup_paragraph returns the
\* empty paragraph and neither obtains the client nor calls the model.
C16_EmptyNoCall ==
    pc = "standup_returned" /\ bullets = <<>> =>
        paragraph = "" /\ chat = NoCall /\ calls = <<>>

\* C16: the function returned for an empty bullet list and a non-empty
\* snippet list.
C16_Witness == pc = "standup_returned" /\ bullets = <<>> /\ team_snips # <<>>

\* _chat returned a content of at least min words
Accepted(min) == chat.k = "resp" /\ WordCount(Strip(chat.text)) >= min

\* the different snippets in ascending order
SnippetsInOrder ==
    LET s == Sorted({team_snips[i] : i \in 1..Len(team_snips)})
    IN  IF /\ \A i \in 1..Len(team_snips) : \E j \in 1..Len(s) : s[j] = team_snips[i]
           /\ \A j \in 1..Len(s) : \E i \in 1..Len(team_snips) : s[j] = team_snips[i]
           /\ \A i, j \in 1..Len(s) : i < j => StrLess(s[i], s[j])
        THEN s
        ELSE <<"?">>

\* the template sentence of the repository aggregator about the text short
StandupTemplate(short) ==
    time_window \o ", I focused on " \o short
        \o ". I wrapped up key changes and ensured things are stable."

C18_TeamAcceptance ==
    pc = "team_returned" =>
        LET names == [i \in 1..Len(repo_summaries) |-> repo_summaries[i].repo_name]
            shown == {i \in 1..Len(repo_summaries) :
                        Strip(repo_summaries[i].standup_summary) # ""}
        IN  /\ repo_summaries = <<>> => paragraph = "" /\ chat = NoCall /\ calls = <<>>
            /\ repo_summaries # <<>> =>
                    /\ chat # NoCall
                    /\ IF Accepted(MinTeamWords)
                       THEN paragraph = Strip(chat.text)
                       ELSE /\ paragraph =
                                _time_window_phrase(scan_mode, "2024-05-01", "")
                                    \o ", the team advanced work across " \o Join(", ", names)
                                    \o ", making steady progress on features, fixes, and cleanup."
                            /\ \A i \in 1..Len(names) : Contains(names[i], paragraph)
            /\ Len(prompt) = Min(MaxPromptRepos, Cardinality(shown))
            /\ \A l \in 1..Len(prompt) :
                    \E i \in shown :
                        /\ Cardinality({j \in shown : j < i}) = l - 1
                        /\ prompt[l] = names[i] \o ": " \o Strip(repo_summaries[i].standup_summary)

\* C18: ten repositories with paragraphs were given, eight were shown to the
\* model, its answer was too short and the template names all ten.
C18_Witness ==
    /\ pc = "team_returned"
    /\ Len(repo_summaries) = 10
    /\ Len(prompt) = MaxPromptRepos
    /\ chat.k = "resp"
    /\ WordCount(chat.text) = MinTeamWords - 2
    /\ Contains("repo10", paragraph)

(***************************************************************************)
(* Properties of LLMSummarizer (SpecSummarize).                            *)
(***************************************************************************)
\* summarize_scan_result has returned
SummarizeReturned == at = "returned"

\* the repository has one bullet per commit and a standup paragraph
FullySummarized(r) == Len(r.bullets) = Len(r.commits) /\ r.standup_summary # ""

\* C19: after summarize_scan_result returns, every repository of the result with
\* at least one commit has one bullet per commit and a non-empty standup
\* paragraph, whether the model service is available, unreachable from the start,
\* or becomes unreachable during the run.
C19_EveryRepositorySummarized ==
    SummarizeReturned =>
        \A i \in 1..Len(scan_result.repositories) :
            Len(scan_result.repositories[i].commits) >= 1 =>
                FullySummarized(scan_result.repositories[i])

\* the logs of the repositories scanned that are not empty, in scan order
ActiveLogs == SelectSeq(raw_logs, LAMBDA l : l # <<>>)

\* the header lines of the blocks of a log, in log order
Headers(raw_log) == [n \in 1..Len(raw_log) |-> raw_log[n][1]]

\* the commits of r are the blocks of raw_log, one for one and in its order
InLogOrder(r, raw_log) ==
    [n \in 1..Len(r.commits) |-> r.commits[n].commit_hash \o " " \o r.commits[n].message]
        = Headers(raw_log)

\* bullets and team_snippets of r hold the bullet and the snippet of each commit
ListsAligned(r) ==
    /\ r.bullets = [n \in 1..Len(r.commits) |-> r.commits[n].bullet]
    /\ r.team_snippets = [n \in 1..Len(r.commits) |-> r.commits[n].team_snippet]

\* C21: in every RepositorySummary the commits are the blocks of the extractor's
\* log, in its order, none dropped or duplicated, after scanning and at every
\* point of the summarization; once summarize_scan_result has returned, bullets
\* and team_snippets have one element per commit, the i-th belonging to the i-th
\* commit.
C21_OrderPreserved ==
    /\ Len(scan_result.repositories) = Len(ActiveLogs)
    /\ \A i \in 1..Len(scan_result.repositories) :
          /\ InLogOrder(scan_result.repositories[i], ActiveLogs[i])
          /\ SummarizeReturned => ListsAligned(scan_result.repositories[i])

\* dict.get(wt, 0)
CountOf(d, wt) == IF wt \in DOMAIN d THEN d[wt] ELSE 0

\* the sum of the counts of a work type over the repositories
RECURSIVE SumCounts(_, _)
SumCounts(rs, wt) ==
    IF rs = <<>> THEN 0 ELSE CountOf(Head(rs).work_type_counts, wt) + SumCounts(Tail(rs), wt)

\* the sum of commit_count over the repositories
RECURSIVE SumCommitCounts(_)
SumCommitCounts(rs) ==
    IF rs = <<>> THEN 0 ELSE Len(Head(rs).commits) + SumCommitCounts(Tail(rs))

\* the sum of the values of a dict of counts
RECURSIVE SumValues(_, _)
SumValues(d, keys) ==
    IF keys = {} THEN 0
    ELSE LET k == CHOOSE k \in keys : TRUE IN d[k] + SumValues(d, keys \ {k})

\* work_type_counts of r is the histogram of the work types of its commits
CountsInSync(r) ==
    /\ DOMAIN r.work_type_counts \subseteq WorkTypes
    /\ \A wt \in WorkTypes :
          CountOf(r.work_type_counts, wt)
              = Cardinality({n \in 1..Len(r.commits) : r.commits[n].work_type = wt})
    /\ SumValues(r.work_type_counts, DOMAIN r.work_type_counts) = Len(r.commits)

\* no method of the summarizer is running: the scan has returned, or the method has
NothingRunning == at \in {"idle", "returned"}

\* C22: in every RepositorySummary returned by scan_repository and by
\* summarize_repository (service available, unavailable, exception fallback)
\* work_type_counts is the histogram of the work types of the commits and its
\* values sum to commit_count; work_type_distribution of the scan result is the
\* pointwise sum of the repositories' counts and total_commits the sum of the
\* commit counts.
C22_CountersInSync ==
    NothingRunning =>
        /\ \A i \in 1..Len(scan_result.repositories) : CountsInSync(scan_result.repositories[i])
        /\ \A wt \in WorkTypes :
              CountOf(work_type_distribution(scan_result), wt)
                  = SumCounts(scan_result.repositories, wt)
        /\ total_commits(scan_result) = SumCommitCounts(scan_result.repositories)

\* a summarization has returned with counts that differ from the scanner's
C22_Witness ==
    /\ SummarizeReturned
    /\ \E i \in 1..Len(scan_result.repositories) :
          scan_result.repositories[i].work_type_counts # summaries[i].work_type_counts

(***************************************************************************)
(* Properties of reruns after termination (SpecResume).                    *)
(***************************************************************************)
\* C23: when a scan was interrupted by process termination at any point after
\* classify had returned for k commits, the rerun over the same commits makes no
\* model call for those k commits: classify never gets to its model call for a
\* commit it has returned a classification for before.  (A commit whose
\* classification was the failure fallback is not counted among the k: its entry
\* is purged at the next load so that it is tried again.)
C23_NoCallForClassified ==
    pc \in {"strict", "relaxed"} => commit_block \notin classified

(***************************************************************************)
(* Properties of scan_all under a configuration (SpecScanAll).             *)
(***************************************************************************)

\* the candidate repositories in their order
Candidates == IF selected_repos # <<>> THEN selected_repos[1] ELSE discovered

\* the scanning events the callback has seen
ScanningEvents == {i \in 1..Len(events) : events[i].phase = "scanning"}

\* the repositories the loop has scanned are the first idx candidates
FirstCandidates == idx <= Len(Candidates) /\ \A i \in 1..idx : repos[i] = Candidates[i]

\* C32: with a maximum count configured, scan_all gives at most that many
\* repositories a scanning event and a run of the extractor, for a discovered
\* set and for a list the caller supplies, and they are the first candidates
C32_AtMostMaxRepos ==
    max_repos # <<>> /\ pc \in {"scanning", "scanned"} =>
        /\ idx <= max_repos[1]
        /\ Len(raw_logs) <= max_repos[1]
        /\ Cardinality(ScanningEvents) <= max_repos[1]
        /\ FirstCandidates

(***************************************************************************)
(* Properties of the progress events (SpecScan, SpecSummarize).            *)
(***************************************************************************)
\* the events of a pass over the repositories named names: one of the phase for
\* each, current = 1..n in order, then one complete event with current = total
PassEvents(names, phase) ==
    [i \in 1..Len(names) |-> ScanProgress(Len(names), i, names[i], phase)]
        \o <<ScanProgress(Len(names), Len(names), "", "complete")>>

\* every event has 0 <= current <= total and current never decreases
EventsInRange ==
    /\ \A i \in 1..Len(events) :
          0 <= events[i].current_repo /\ events[i].current_repo <= events[i].total_repos
    /\ \A i, j \in 1..Len(events) : i <= j => events[i].current_repo <= events[j].current_repo

\* scan_all: the events seen so far are the first of the pass, the event of a
\* repository is there before its log is fetched, and all are there at return
ScanEventsInOrder ==
    callback = "records" =>
        LET pass == PassEvents([i \in 1..Len(repos) |-> repos[i].name], "scanning")
        IN  /\ Len(events) <= Len(pass) /\ events = SubSeq(pass, 1, Len(events))
            /\ Len(raw_logs) <= Len(events)
            /\ pc = "scanned" => events = pass

\* C24: with a callback that records, every event has 0 <= current <= total and
\* current never decreases within the pass, and when summarize_scan_result has
\* returned the callback has seen one 'summarizing' event for each repository of
\* the scan result, with current = 1..n in order, followed by exactly one
\* 'complete' event with current = total.
C24_ProgressProtocol ==
    callback = "records" =>
        /\ EventsInRange
        /\ SummarizeReturned =>
              events = PassEvents([i \in 1..Len(scan_result.repositories) |->
                                      scan_result.repositories[i].repo_name], "summarizing")

(***************************************************************************)
(* Properties of the objects classify returns (Spec).                      *)
(***************************************************************************)
\* the object has a work_type of the enumeration
HasWorkType(d) == "work_type" \in DOMAIN d /\ d["work_type"] \in WorkTypes

\* every commit record of the scan result has a work_type of the enumeration
RecordsHaveWorkType ==
    \A i \in 1..Len(scan_result.repositories) :
        \A n \in 1..Len(scan_result.repositories[i].commits) :
            HasWorkType(scan_result.repositories[i].commits[n])

\* C25: for every model response, the work_type of the object classify returns,
\* and of the object it has put into the cache for the commit, is one of
\* feature, bugfix, refactor, docs, test, chore, perf, build, ci, other.
C25_ClosedWorkType ==
    pc = "returned" =>
        /\ HasWorkType(result)
        /\ \A h \in DOMAIN mem_cache : HasWorkType(mem_cache[h])

(***************************************************************************)
(* Properties of _try_parse_json (SpecParse).                              *)
(***************************************************************************)
\* the positions of the {...} spans of the text parsed
BraceSpans == {i \in 1..Len(strict.text) : strict.text[i].t \in {"obj", "junk"}}
\* the first of them
FirstBrace == CHOOSE i \in BraceSpans : \A j \in BraceSpans : i <= j
\* the text holds one JSON object and, around it, nothing with braces
OneObject == Cardinality(BraceSpans) = 1 /\ strict.text[FirstBrace].t = "obj"
\* the text holds several {...} spans and the first of them is a JSON object
SeveralSpans == Cardinality(BraceSpans) > 1 /\ strict.text[FirstBrace].t = "obj"

\* what the call returns for a text with one JSON object: that object
OneObjectParsed ==
    pc = "parsed" /\ OneObject => result.value = PyDict(strict.text[FirstBrace].d)

\* C26: _try_parse_json returns the JSON object of a response that wraps it in
\* code fences or prose, writes it with curly quotes or with a trailing comma;
\* of several {...} spans it returns the first balanced one.
C26_LenientParsing ==
    pc = "parsed" /\ (OneObject \/ SeveralSpans) =>
        result.value = PyDict(strict.text[FirstBrace].d)

(***************************************************************************)
(* Properties of test_connection (SpecConnection).                         *)
(***************************************************************************)
\* test_connection has been called and is over
Tested == entry = "test_connection" /\ at \in {"returned", "raised"}
\* the client was obtained and its list call returned
ListSucceeded == probe.conn = "ok" /\ probe.listing.k # "raise"

\* C27: test_connection never raises.  When the client is obtained and the list
\* call succeeds it reports available = true and error = null; when the service
\* is disabled or unreachable or the call raises it reports available = false, a
\* reason that is not null and an empty model list.
C27_TestConnection ==
    Tested =>
        /\ at = "returned"
        /\ raised = NoExc
        /\ ListSucceeded => result.available /\ result.error = NoneValue
        /\ ~ListSucceeded =>
              ~result.available /\ result.error # NoneValue /\ result.models = <<>>

\* the list call of an obtained client raised and the status says so
C27_Witness ==
    /\ Tested
    /\ probe.conn = "ok"
    /\ probe.listing = ListRaises
    /\ result = FailedStatus(ListError)

(***************************************************************************)
(* Exceptions of summarize_scan_result (SpecSummarize).                    *)
(***************************************************************************)
\* a client.chat call of the last classification raised
ModelFailed == strict = ChatRaises \/ relaxed = ChatRaises

\* C28: summarize_scan_result returns the ScanResult or raises
\* SummarizationError and nothing else; it raises for no failure of the model in
\* a commit, repository or team step, only when the progress callback raises.
C28_OnlySummarizationError ==
    entry = "scan_result" =>
        /\ at = "raised" => raised.type = "SummarizationError" /\ callback = "raises"
        /\ at # "raised" => raised = NoExc
        /\ pc # "raised"

\* it has returned after a client.chat call of the last commit raised
C28_Witness ==
    /\ entry = "scan_result"
    /\ at = "returned"
    /\ _ollama_available = "True"
    /\ ModelFailed
    /\ raised = NoExc

(***************************************************************************)
(* The purge inside classify_and_summarize_commit (Spec).                  *)
(***************************************************************************)
\* the bullet of the entry holds the failure marker
HasMarker(v) == "bullet" \in DOMAIN v /\ Contains("summary unavailable", v["bullet"])
\* the cache file held a failure entry for the commit of the invocation
FailedBefore == commit_hash \in DOMAIN loaded /\ HasMarker(loaded[commit_hash])
\* the mapping is the loaded one without its marker entries, the others as they were
PurgedExactly(cache) ==
    /\ DOMAIN cache = {h \in DOMAIN loaded : ~HasMarker(loaded[h])}
    /\ \A h \in DOMAIN cache : cache[h] = loaded[h]

\* the purge of the invocation raised
PurgeFailed == pc = "raised" /\ raised = PurgeError

\* C29: the purge removes exactly the entries whose bullet holds the marker
\* 'summary unavailable' and leaves the others as they are; classify purges the
\* loaded cache before the lookup, so every invocation comes to its lookup, the
\* lookup returns no marker entry, and a commit whose entry had the marker goes
\* to the model again.
C29_PurgeBeforeLookup ==
    /\ ~PurgeFailed
    /\ pc \in {"strict", "relaxed", "returned"} =>
          /\ (pc = "strict" \/ source = "cache") => PurgedExactly(mem_cache)
          /\ source = "cache" => ~HasMarker(result)
          /\ FailedBefore => source # "cache" /\ (pc = "returned" => strict # NoCall)

\* the same for the invocations whose purge returns
C29_WherePurgeReturns ==
    pc \in {"strict", "relaxed", "returned"} =>
        /\ (pc = "strict" \/ source = "cache") => PurgedExactly(mem_cache)
        /\ source = "cache" => ~HasMarker(result)
        /\ FailedBefore => source # "cache" /\ (pc = "returned" => strict # NoCall)

\* the keys of the failure entries a cache file holds
FailureKeys(file) == {h \in DOMAIN load_cache(file) : HasMarker(load_cache(file)[h])}

\* the invocation found a failure entry of another commit in the cache file
OtherFailedBefore == \E h \in DOMAIN loaded : h # commit_hash /\ HasMarker(loaded[h])

\* C33: when a classify call returns, the persisted cache holds at most one
\* 'summary unavailable' entry, under the hash just classified; the failure
\* entries earlier calls left are gone
C33_OneFailureEntry ==
    pc = "returned" => \A p \in Paths : FailureKeys(files[p]) \subseteq {commit_hash}

C33_Witness ==
    /\ pc = "returned"
    /\ source = "except"
    /\ OtherFailedBefore
    /\ FailureKeys(files[DEFAULT_CACHE_PATH]) = {commit_hash}

\* between two contents of a cache file a call for hash_ has kept the entries
\* of the other hashes, but for the failure entries, and added none
OthersKept(old, new, hash_) ==
    /\ \A h \in DOMAIN old \ {hash_} :
          IF HasMarker(old[h]) THEN h \notin DOMAIN new
          ELSE h \in DOMAIN new /\ new[h] = old[h]
    /\ DOMAIN new \ {hash_} \subseteq DOMAIN old

\* nothing was added to the content and no entry modified
NothingAdded(old, new) == \A h \in DOMAIN new : h \in DOMAIN old /\ new[h] = old[h]

\* a step of classify kept to the frame of its cache file p
FrameKept(p) ==
    IF p # LoadPath(cache_path')
    THEN files'[p] = files[p]
    ELSE /\ OthersKept(load_cache(files[p]), load_cache(files'[p]), commit_hash')
         /\ source' = "cache" => NothingAdded(load_cache(files[p]), load_cache(files'[p]))

\* C35: a classify call for a hash leaves the persisted entries of the other
\* hashes as they are, but for the failure entries it deletes, and adds or
\* modifies nothing when it finds the hash in the cache; this holds for the cache
\* file the call was asked to use, the default one or the caller's cache_path,
\* and the call modifies no other cache file
C35_FrameOfClassify == [][\A p \in Paths : FrameKept(p)]_vars

(***************************************************************************)
(* Properties of the availability check and the client (SpecAvailable).    *)
(***************************************************************************)
\* the step contacts the service
Contacts == calls' # calls
\* the step contacts the service and the validation succeeds
Validates == Contacts /\ calls'[Len(calls')] = "ok"

\* C38: after the first is_available call of an instance every later call on it
\* returns the same value and does not contact the service; get_ollama_client
\* stores the client only after a validation that succeeded, so a call after a
\* failed initialization contacts the service again and a call after a
\* successful one returns the client without another validation
C38_CheckedOnce ==
    [][/\ entry' = "is_available" /\ _ollama_available # "None" =>
              /\ result' = _ollama_available
              /\ _ollama_available' = _ollama_available
              /\ ~Contacts
       /\ _client' /\ ~_client => Validates
       /\ entry' = "get_ollama_client" /\ ~_client => Contacts /\ (at' = "returned") = Validates
       /\ entry' = "get_ollama_client" /\ _client =>
              ~Contacts /\ at' = "returned" /\ _client']_vars

\* an instance whose first check failed answers False without a contact after
\* the module has got a validated client by a later call of get_ollama_client
C38_Witness ==
    /\ entry = "is_available"
    /\ result = "False"
    /\ _ollama_available = "False"
    /\ _client
    /\ Len(calls) >= 2
    /\ calls[1] # "ok"

(***************************************************************************)
(* Properties of the cache keys (SpecKeys).                                *)
(***************************************************************************)
\* C34: no classification is used for another commit: two commit blocks whose
\* headers have different hashes never have the same cache key, also when the
\* first token is no run of 6 to 40 lower-case hexadecimal characters, so a
\* lookup finds only what a call for the same header hash has stored
C34_NoSharedKey ==
    pc # "idle" =>
        /\ \A b \in classified :
              HeaderHash(b) # HeaderHash(commit_block) => CacheKey(b) # commit_hash
        /\ source = "cache" =>
              \E b \in classified : HeaderHash(b) = HeaderHash(commit_block)

(***************************************************************************)
(* Properties of interleaved invocations (SpecInterleave).                 *)
(***************************************************************************)
\* both invocations have returned
BothReturned == pc = "returned" /\ peer.pc = "returned"

\* the invocations that sent a commit with this hash to the model
SentBy(h) ==
    {i \in {Locals, peer} : i.commit_hash = h /\ i.calls # <<>>}

\* C36: when two classify invocations for different hashes are interleaved on
\* the same cache file (load, purge, save, model call, save), the persisted
\* cache holds both hashes after both have returned, and each hash was sent to
\* the model by at most one invocation.  (A failure entry is purged by the next
\* load, so the invocations are those that returned a classification without
\* the failure marker.)
C36_BothPersisted ==
    BothReturned /\ ~HasMarker(result) /\ ~HasMarker(peer.result) =>
        /\ {commit_hash, peer.commit_hash} \subseteq DOMAIN load_cache(files[DEFAULT_CACHE_PATH])
        /\ \A h \in {commit_hash, peer.commit_hash} : Cardinality(SentBy(h)) <= 1

(***************************************************************************)
(* Team snippets (Spec).                                                   *)
(***************************************************************************)
\* at most 60 characters and no period at the end
ShortSnippet(v) == Len(v) <= SnippetLen /\ (v = "" \/ CharAt(v, Len(v)) # ".")

\* C30: after a classification, the team snippet of the object returned and of
\* every cache entry has at most 60 characters and no trailing period, whatever
\* the classification came from.
C30_ShortSnippets ==
    pc = "returned" =>
        /\ ShortSnippet(result["team_snippet"])
        /\ \A h \in DOMAIN mem_cache : ShortSnippet(mem_cache[h]["team_snippet"])

\* the same for the classifications that do not come from a model response
C30_ShortUnlessFromModel ==
    pc = "returned" /\ source \in {"heuristic", "except"} =>
        ShortSnippet(result["team_snippet"])

(***************************************************************************)
(* Commit records under summarization (SpecSummarizeTwice).                *)
(***************************************************************************)
\* the fields of a commit record that are no classification
RecordFields == {"commit_hash", "message", "files_changed", "insertions", "deletions"}

\* a step leaves these fields of every record of the scan result as they are
RecordsKept ==
    /\ Len(scan_result'.repositories) = Len(scan_result.repositories)
    /\ \A i \in 1..Len(scan_result.repositories) :
          LET old == scan_result.repositories[i].commits
              new == scan_result'.repositories[i].commits
          IN  /\ Len(new) = Len(old)
              /\ \A n \in 1..Len(old) : \A f \in RecordFields : new[n][f] = old[n][f]

\* the step is the end of summarize_commit in the second call
SummarizedAgain == at = "classify" /\ at' # "classify" /\ earlier # <<>>
\* ... for a commit that the call found in the cache
FromCache == pc = "returned" /\ source = "cache"
\* ... for a commit whose work type the first call changed
ChangedBefore ==
    earlier[repo_idx + 1].commits[commit_idx + 1].work_type
        # summaries[repo_idx + 1].commits[commit_idx + 1].work_type

\* C31: summarize_commit and summarize_repository change no commit_hash,
\* message, files_changed, insertions or deletions of a commit record, with the
\* model available, unavailable or failing, and summarizing a commit again
\* that is in the cache, or whose work_type was changed before, does not change
\* its work_type.
C31_RecordsImmutable ==
    [][/\ RecordsKept
       /\ SummarizedAgain /\ (FromCache \/ ChangedBefore) =>
             scan_result'.repositories[repo_idx + 1].commits[commit_idx + 1].work_type
                 = earlier[repo_idx + 1].commits[commit_idx + 1].work_type]_vars

\* a second call has returned; a commit it found in the cache has the work type
\* the first call gave it, which is not the one the scanner gave it
C31_Witness ==
    /\ earlier # <<>>
    /\ at = "returned"
    /\ source = "cache"
    /\ \E i \in 1..Len(earlier) : \E n \in 1..Len(earlier[i].commits) :
          /\ earlier[i].commits[n].work_type # summaries[i].commits[n].work_type
          /\ scan_result.repositories[i].commits[n].work_type = earlier[i].commits[n].work_type
          /\ scan_result.repositories[i].commits[n].commit_hash = commit_hash

(***************************************************************************)
(* The two heuristics (SpecAgree).                                         *)
(***************************************************************************)
\* C37: for every commit message the scanner's heuristic returns the work type
\* whose value is the string the classifier's heuristic returns, so the work
\* type the scanner gives a commit is the one the classifier's heuristic
\* fallback gives it.
C37_HeuristicsAgree ==
    pc = "returned" => result.scanner = result.direct /\ result.scanner = result.classifier

\* a commit whose hash holds a keyword and whose message holds keywords of two
\* work types got the same work type from both
C37_Witness ==
    /\ pc = "returned"
    /\ commit_hash = "c1add57"
    /\ commit_msg = "specdoc"
    /\ result.scanner = "docs"
    /\ result.classifier = "docs"

====
